---- MODULE Spec2Model ----
(***************************************************************************)
(* IMDSv2 client of aws-config (imds/client.rs): the token lifecycle, the  *)
(* retry classification and the outcome mapping of Client::get, as a state *)
(* machine over one Client used by one caller, a manual clock, and an IMDS *)
(* server whose answers are chosen nondeterministically.                   *)
(*                                                                         *)
(* Time is in seconds.  Token values are the serial numbers of the tokens  *)
(* the server has issued (1, 2, ...), so two tokens are the same value iff *)
(* they come from the same token response.                                 *)
(***************************************************************************)
EXTENDS Integers, Sequences, FiniteSets, TLC

(***************************************************************************)
(* Bounds of the model.                                                    *)
(***************************************************************************)
\* the classifier is called at most this many times in a row
MaxCalls == 2
\* mode strings handed to from_str have at most this many characters
MaxModeLen == 5
\* number of tasks calling LazyClient::client concurrently
MaxCallers == 2
MaxClones == 2
MaxFetches == 2
MaxRequests == 4
\* LazyClient::client is called at most this many times
MaxClientCalls == 2
\* the environment and the profile file are changed at most this many times
MaxChanges == 1
\* the manual clock is stepped no further than this instant
MaxTime == 600
\* the server issues at most this many tokens
MaxTokens == 3
\* Builder::max_attempts overrides range over 1..MaxAttemptsOverride
MaxAttemptsOverride == 2

(***************************************************************************)
(* Program constants.                                                      *)
(***************************************************************************)
DEFAULT_TOKEN_TTL == 21600
DEFAULT_ATTEMPTS == 4
DEFAULT_CONNECT_TIMEOUT == 1
DEFAULT_READ_TIMEOUT == 1
TOKEN_REFRESH_BUFFER == 120

(***************************************************************************)
(* Input domains.                                                          *)
(***************************************************************************)
\* Instants the manual time source is stepped through: the t = 0, 400, 550
\* of test::token_refresh_buffer, the t = 600 of test::token_can_expire and
\* the exact boundary 480 = 600 - 120 (and the instant after each bound).
Instants == {0, 400, 480, 550, 600, 601}

\* TTLs the server grants: 0 (test::retry_metadata_401), the buffer itself,
\* one second more than the buffer, and the 600 of test::token_can_expire.
GrantedTtls == {0, 120, 121, 600}

\* HTTP status codes (the valid range is 100..599).
Statuses == {100, 200, 301, 400, 401, 403, 404, 500}

None == <<>>
Some(x) == <<x>>

\* Answers to the token PUT: a transport failure (io), or a response.  A
\* successful response varies in its body (usable as a header value or not)
\* and its TTL header (absent, not an integer, or a granted TTL); an error
\* response has an empty body and no TTL header, as in the tests.
TokenAnswers ==
    {[io |-> TRUE, status |-> 0, body_ok |-> TRUE, ttl |-> "none", secs |-> 0]}
    \cup {[io |-> FALSE, status |-> s, body_ok |-> TRUE, ttl |-> "none", secs |-> 0] :
            s \in Statuses}
    \cup {[io |-> FALSE, status |-> 200, body_ok |-> b, ttl |-> "invalid", secs |-> 0] :
            b \in BOOLEAN}
    \cup {[io |-> FALSE, status |-> 200, body_ok |-> b, ttl |-> "int", secs |-> g] :
            b \in BOOLEAN, g \in GrantedTtls}

\* Answers to the metadata GET: a transport failure, or a response with a
\* status and a body that is valid UTF-8 or not.
GetAnswers ==
    {[io |-> TRUE, status |-> 0, utf8 |-> TRUE]}
    \cup {[io |-> FALSE, status |-> s, utf8 |-> TRUE] : s \in Statuses}
    \cup {[io |-> FALSE, status |-> s, utf8 |-> FALSE] : s \in {t \in Statuses : t \div 100 = 2}}

AttemptChoices == (1..MaxAttemptsOverride) \cup {DEFAULT_ATTEMPTS}

(***************************************************************************)
(* State.                                                                  *)
(***************************************************************************)
VARIABLES
    now,          \* the time source
    max_attempts, \* retry_config of the built Client
    cache,        \* the cached token: None or Some([value, expires_at])
    issued,       \* number of tokens the server has issued
    pc,           \* "idle" | "token_wait" (PUT in flight) | "get_wait" (GET in flight)
    get_attempt,  \* attempts of the get operation made by the retry loop, this call
    put_attempt,  \* attempts of the get-token operation, this token fetch
    result,       \* what the last get returned
    puts,         \* token PUTs put on the wire by the current call
    gets,         \* metadata GETs put on the wire by the current call
    fetched,      \* successful token fetches of the current call
    wire,         \* the last GET of the current call: None or Some([value, fresh, live, margin])
    prev,         \* the last answer to a GET of the current call: None or
                  \* Some([status, text, value]), value the token that GET carried
    last_put,     \* the last answer to a token PUT of the current call: None or
                  \* Some([status, body_ok, ttl, secs])
    old,          \* the value of the token cached when the current call started (0: none)
    entered,      \* TRUE from the step that starts an attempt of the get operation
                  \* (the first of a call, or a retry) until the next step
    classified,   \* the classifier's calls so far: a sequence of
                  \* [operation, outcome, kind]
    path_parses,  \* whether the path handed to get parses as a URI
    call_outcome, \* how the last attempt of the get operation ended
    get_result,   \* what get returned for it: None or Some(result)
    handles,      \* the Client values in use: handles[h] is the ClientInner that
                  \* handle h points to
    inners,       \* the token cache of each ClientInner: None or Some(token)
    calls,        \* the last get made through each handle: [pc, at, had, fetched,
                  \* value], had the cache as read at instant at
    responses,    \* the tokens the server has granted: a set of [value, expires_at]
    latest,       \* the token of the last successful token fetch: None or Some(token)
    fetched_by,   \* the handle whose get made that fetch (0: none)
    wire_builder, \* a Builder: [endpoint, token_ttl, max_attempts, connect_timeout,
                  \* read_timeout], the options None or Some(value)
    wire_client,  \* the Client built from it: None or Some(settings)
    wire_path,    \* the path of the get under way
    requests,     \* the requests that reached the connector, in order
    granted,      \* the TTL header of each token response: granted[v] is the TTL
                  \* granted to token v
    mode_str,     \* a string handed to EndpointMode::from_str
    mode_parsed,  \* what from_str returned for it: None or Some(Result)
    mode_uri,     \* what EndpointMode::endpoint returned for the parsed mode
    builder,      \* the Builder of a LazyClient: [endpoint, mode_override]
    env,          \* the process environment: [endpoint, mode], each None or Some(string)
    profile,      \* the profile file: [loads, endpoint, mode]
    cell,         \* LazyClient.client, a OnceCell: None or Some(Result<Client, BuildError>)
    returned,     \* what the calls of LazyClient::client returned, in order
    built_from,   \* the environment and profile Builder::build read: None or Some([env, profile])
    builds,       \* number of times Builder::build has run
    sent_to,      \* the base URI of the first request of the built Client: None or Some(uri)
    changes,      \* number of changes made to the environment and the profile file
    lazy_pc,      \* where each concurrent caller of LazyClient::client is
    got,          \* what client() returned to each caller: None or Some(outcome)
    permit,       \* the caller holding the OnceCell's permit (0: nobody)
    warned,       \* number of "failed to create IMDS client" warnings logged
    started       \* number of times the init future has started build

\* the state of one Client and of the call in progress on it
client_vars == <<now, max_attempts, cache, issued, pc, get_attempt, put_attempt, result,
                 puts, gets, fetched, wire, prev, last_put, old, entered>>

\* the state the other specifications of this module run on
mode_vars == <<mode_str, mode_parsed, mode_uri>>

build_vars == <<builder, env, profile, cell, returned, built_from, builds, sent_to,
                changes>>

lazy_vars == <<lazy_pc, got, permit, warned, started>>

outcome_vars == <<path_parses, call_outcome, get_result>>

clone_vars == <<handles, inners, calls, responses, latest, fetched_by>>

wire_vars == <<wire_builder, wire_client, wire_path, requests, granted>>

aux_vars == <<classified, outcome_vars, clone_vars, wire_vars, mode_vars, build_vars, lazy_vars>>

vars == <<client_vars, aux_vars>>

\* no string has been handed to from_str
ModeAtRest ==
    /\ mode_str = <<>> /\ mode_parsed = None /\ mode_uri = None

\* no LazyClient is in use: a default Builder, an empty environment and profile
BuildAtRest ==
    /\ builder = [endpoint |-> None, mode_override |-> None]
    /\ env = [endpoint |-> None, mode |-> None]
    /\ profile = [loads |-> TRUE, endpoint |-> None, mode |-> None]
    /\ cell = None /\ returned = <<>> /\ built_from = None
    /\ builds = 0 /\ sent_to = None /\ changes = 0

\* no concurrent callers of LazyClient::client
OutcomeAtRest ==
    /\ path_parses = TRUE
    /\ call_outcome = [stage |-> "none", err |-> "", status |-> 0, utf8 |-> TRUE]
    /\ get_result = <<>>

CloneAtRest ==
    /\ handles = <<>> /\ inners = <<>> /\ calls = <<>>
    /\ responses = {} /\ latest = <<>> /\ fetched_by = 0

WireAtRest ==
    /\ wire_builder = <<>> /\ wire_client = <<>> /\ wire_path = <<>>
    /\ requests = <<>> /\ granted = <<>>

LazyAtRest ==
    /\ lazy_pc = <<>> /\ got = <<>> /\ permit = 0 /\ warned = 0 /\ started = 0

NoResult == [kind |-> "none", err |-> "", status |-> 0]
Ok == [kind |-> "Ok", err |-> "", status |-> 0]

(***************************************************************************)
(* http::StatusCode                                                        *)
(***************************************************************************)
is_success(status) == status >= 200 /\ status < 300

\* mutant: every status from 500 up counts as a server error
is_server_error_Open(status) == status >= 500

is_server_error(status) == status >= 500 /\ status < 600

(***************************************************************************)
(* ImdsResponseRetryClassifier                                             *)
(***************************************************************************)
\* mutant: a 403 is retried like a 401
classify_Retry403(status) ==
    IF is_server_error(status) THEN "Error"
    ELSE IF status = 401 \/ status = 403 THEN "Error"
    ELSE "UnretryableFailure"

\* mutant: every client error is retried, not only 401
classify_Retry4xx(status) ==
    IF is_server_error(status) THEN "Error"
    ELSE IF status >= 400 THEN "Error"
    ELSE "UnretryableFailure"

\* mutant: the server-error arm is missing
classify_NoServerError(status) ==
    IF status = 401 THEN "Error"
    ELSE "UnretryableFailure"

\* mutant: the catch-all retries, so a successful response that fails to
\* parse is retried
classify_RetrySuccess(status) ==
    IF is_server_error(status) THEN "Error"
    ELSE IF status = 401 THEN "Error"
    ELSE IF is_success(status) THEN "Error"
    ELSE "UnretryableFailure"

\* mutant: the 401 arm is missing
classify_No401(status) ==
    IF is_server_error(status) THEN "Error"
    ELSE "UnretryableFailure"

classify(status) ==
    IF is_server_error(status) THEN "Error"
    ELSE IF status = 401 THEN "Error"
    ELSE "UnretryableFailure"

\* mutant: the arm that classifies the raw response of a ResponseError or
\* ServiceError is missing
classify_retry_NoRaw(outcome) ==
    IF outcome.ok THEN "Unnecessary"
    ELSE "UnretryableFailure"

\* mutant: an error without a raw response (a ConstructionFailure among them)
\* is retried
classify_retry_RetryNoResponse(outcome) ==
    IF outcome.ok THEN "Unnecessary"
    ELSE IF outcome.raw THEN classify(outcome.status)
    ELSE "Error"

\* An outcome is [ok, raw, status]: parsed successfully; or an SdkError that
\* carries a raw response (ResponseError, ServiceError); or one that does
\* not (ConstructionFailure, TimeoutError, DispatchFailure).
classify_retry(outcome) ==
    IF outcome.ok THEN "Unnecessary"
    ELSE IF outcome.raw THEN classify(outcome.status)
    ELSE "UnretryableFailure"

(***************************************************************************)
(* ImdsGetResponseHandler                                                  *)
(***************************************************************************)
\* mutant: the body is decoded lossily, so a 2xx body always parses
ImdsGetResponseHandler_parse_Lossy(response) ==
    IF is_success(response.status) THEN "Ok" ELSE "BadStatus"

ImdsGetResponseHandler_parse(response) ==
    IF is_success(response.status)
    THEN IF response.utf8 THEN "Ok" ELSE "InvalidUtf8"
    ELSE "BadStatus"

(***************************************************************************)
(* Client::make_operation and the error mapping of Client::get             *)
(***************************************************************************)
\* path.parse::<Uri>() fails with InvalidPath; otherwise the operation is made
make_operation(path_ok) ==
    IF path_ok THEN "Operation" ELSE "InvalidPath"

\* map_err with the TimeoutError arm reporting Unexpected
map_err_TimeoutUnexpected(e) ==
    CASE e.variant = "ConstructionFailure" ->
            IF e.err = "Other"
            THEN [kind |-> "Unexpected", err |-> e.err, status |-> 0]
            ELSE [kind |-> "FailedToLoadToken", err |-> e.err, status |-> e.status]
      [] e.variant = "TimeoutError" -> [kind |-> "Unexpected", err |-> "", status |-> 0]
      [] e.variant = "DispatchFailure" -> [kind |-> "IoError", err |-> "", status |-> 0]
      [] e.variant = "ResponseError" -> [kind |-> "IoError", err |-> "", status |-> 0]
      [] e.variant = "ServiceError" /\ e.err = "BadStatus" ->
            [kind |-> "ErrorResponse", err |-> "", status |-> e.status]
      [] e.variant = "ServiceError" /\ e.err = "InvalidUtf8" ->
            [kind |-> "Unexpected", err |-> "IMDS returned invalid UTF-8", status |-> 0]

\* map_err without the downcast: every ConstructionFailure is Unexpected
map_err_NoDowncast(e) ==
    CASE e.variant = "ConstructionFailure" ->
            [kind |-> "Unexpected", err |-> e.err, status |-> 0]
      [] e.variant = "TimeoutError" -> [kind |-> "IoError", err |-> "", status |-> 0]
      [] e.variant = "DispatchFailure" -> [kind |-> "IoError", err |-> "", status |-> 0]
      [] e.variant = "ResponseError" -> [kind |-> "IoError", err |-> "", status |-> 0]
      [] e.variant = "ServiceError" /\ e.err = "BadStatus" ->
            [kind |-> "ErrorResponse", err |-> "", status |-> e.status]
      [] e.variant = "ServiceError" /\ e.err = "InvalidUtf8" ->
            [kind |-> "Unexpected", err |-> "IMDS returned invalid UTF-8", status |-> 0]

\* An SdkError is [variant, err, status]; err names the inner error.
map_err(e) ==
    CASE e.variant = "ConstructionFailure" ->
            IF e.err = "Other"
            THEN [kind |-> "Unexpected", err |-> e.err, status |-> 0]
            ELSE [kind |-> "FailedToLoadToken", err |-> e.err, status |-> e.status]
      [] e.variant = "TimeoutError" -> [kind |-> "IoError", err |-> "", status |-> 0]
      [] e.variant = "DispatchFailure" -> [kind |-> "IoError", err |-> "", status |-> 0]
      [] e.variant = "ResponseError" -> [kind |-> "IoError", err |-> "", status |-> 0]
      [] e.variant = "ServiceError" /\ e.err = "BadStatus" ->
            [kind |-> "ErrorResponse", err |-> "", status |-> e.status]
      [] e.variant = "ServiceError" /\ e.err = "InvalidUtf8" ->
            [kind |-> "Unexpected", err |-> "IMDS returned invalid UTF-8", status |-> 0]

(***************************************************************************)
(* Retry loop (aws_smithy_client): up to max_attempts attempts, stopping   *)
(* at the first Unnecessary or UnretryableFailure                          *)
(***************************************************************************)
should_retry(kind, attempt, max) == kind = "Error" /\ attempt < max

(***************************************************************************)
(* Token cache manager (imds/client/token.rs)                              *)
(***************************************************************************)
\* mutant: the refresh buffer is forgotten
Usable_NoBuffer(token, t) == t < token.expires_at

\* mutant: the comparison is the wrong way round
Usable_Reversed(token, t) == t >= token.expires_at - TOKEN_REFRESH_BUFFER

\* mutant: the boundary instant expires_at - buffer still counts as usable
Usable_Inclusive(token, t) == t <= token.expires_at - TOKEN_REFRESH_BUFFER

\* mutant: the refresh buffer is 60 seconds
Usable_ShortBuffer(token, t) == t < token.expires_at - 60

\* a cached token is usable while now < expires_at - refresh buffer
Usable(token, t) == t < token.expires_at - TOKEN_REFRESH_BUFFER

\* The token response handler: [ok, err].  400 and 403 are named errors; the
\* body must be a header value; the TTL header must be there and an integer
\* (test::retry_metadata_401 grants a TTL of 0, and its token is used).
GetTokenResponseHandler_parse(response) ==
    IF response.status = 400 THEN [ok |-> FALSE, err |-> "InvalidParameters"]
    ELSE IF response.status = 403 THEN [ok |-> FALSE, err |-> "Forbidden"]
    ELSE IF ~response.body_ok THEN [ok |-> FALSE, err |-> "InvalidToken"]
    ELSE IF response.ttl = "none" THEN [ok |-> FALSE, err |-> "NoTtl"]
    ELSE IF response.ttl = "invalid" THEN [ok |-> FALSE, err |-> "InvalidTtl"]
    ELSE [ok |-> TRUE, err |-> ""]

\* mutant: the expiry is computed from the TTL the client asks for by default
Token_FromRequested(response, serial, t) ==
    [value |-> serial, expires_at |-> t + DEFAULT_TOKEN_TTL]

\* expires_at = now + granted TTL
Token(response, serial, t) == [value |-> serial, expires_at |-> t + response.secs]

\* mutant: a token already in the cache is kept (initialise-once)
Replace_KeepOld(cached, token) == IF cached = None THEN Some(token) ELSE cached

\* mutant: the value is written, the expiry of the token already cached kept
Replace_ValueOnly(cached, token) ==
    IF cached = None
    THEN Some(token)
    ELSE Some([value |-> token.value, expires_at |-> cached[1].expires_at])

\* the cached token is replaced wholesale by the fetched one
Replace(cached, token) == Some(token)

\* A GET put on the wire at instant t with this token in its header: fresh
\* when the token was fetched for this very request; live when t is before
\* the token's expiry; at_expiry when t is the instant of expiry; margin when
\* t is before the refresh buffer.
OnWire(token, fresh, t) ==
    [value |-> token.value, fresh |-> fresh,
     live |-> t < token.expires_at,
     at_expiry |-> t = token.expires_at,
     margin |-> t < token.expires_at - TOKEN_REFRESH_BUFFER]

(***************************************************************************)
(* One pass of the get request through ImdsMiddleware (token loader, then  *)
(* user agent) to the connector: n is the attempt, p, g and w the PUT      *)
(* count, GET count and last GET so far.                                   *)
(***************************************************************************)
\* mutant: usability is looked at on the first attempt only; a retry sends
\* the cached token whatever its expiry
Dispatch_CheckOnce(n, p, g, w) ==
    /\ get_attempt' = n
    /\ IF cache # None /\ (n >= 2 \/ Usable(cache[1], now))
       THEN /\ pc' = "get_wait"
            /\ wire' = Some(OnWire(cache[1], FALSE, now))
            /\ gets' = g + 1
            /\ puts' = p
            /\ put_attempt' = 0
       ELSE /\ pc' = "token_wait"
            /\ put_attempt' = 1
            /\ puts' = p + 1
            /\ gets' = g
            /\ wire' = w
    /\ UNCHANGED <<cache, issued>>

\* mutant: an attempt that has to fetch a token starts the count of attempts
\* again
Dispatch_RestartsCount(n, p, g, w) ==
    IF cache # None /\ Usable(cache[1], now)
    THEN /\ get_attempt' = n
         /\ pc' = "get_wait"
         /\ wire' = Some(OnWire(cache[1], FALSE, now))
         /\ gets' = g + 1
         /\ puts' = p
         /\ put_attempt' = 0
         /\ UNCHANGED <<cache, issued>>
    ELSE /\ get_attempt' = 1
         /\ pc' = "token_wait"
         /\ put_attempt' = 1
         /\ puts' = p + 1
         /\ gets' = g
         /\ wire' = w
         /\ UNCHANGED <<cache, issued>>

Dispatch(n, p, g, w) ==
    /\ get_attempt' = n
    /\ IF cache # None /\ Usable(cache[1], now)
       THEN /\ pc' = "get_wait"
            /\ wire' = Some(OnWire(cache[1], FALSE, now))
            /\ gets' = g + 1
            /\ puts' = p
            /\ put_attempt' = 0
       ELSE /\ pc' = "token_wait"
            /\ put_attempt' = 1
            /\ puts' = p + 1
            /\ gets' = g
            /\ wire' = w
    /\ UNCHANGED <<cache, issued>>

(***************************************************************************)
(* Actions                                                                 *)
(***************************************************************************)
Init ==
    /\ now = 0
    /\ max_attempts \in AttemptChoices
    /\ cache = None
    /\ issued = 0
    /\ pc = "idle"
    /\ get_attempt = 0
    /\ put_attempt = 0
    /\ result = NoResult
    /\ puts = 0
    /\ gets = 0
    /\ fetched = 0
    /\ wire = None
    /\ prev = None
    /\ last_put = None
    /\ old = 0
    /\ entered = FALSE
    /\ classified = <<>>
    /\ OutcomeAtRest
    /\ CloneAtRest
    /\ WireAtRest
    /\ ModeAtRest
    /\ BuildAtRest
    /\ LazyAtRest

\* ManualTimeSource::advance to the instant t
AdvanceTo(t) ==
    /\ t > now /\ t <= MaxTime /\ now' = t
    /\ entered' = FALSE
    /\ UNCHANGED <<max_attempts, cache, issued, pc, get_attempt, put_attempt, result,
                   puts, gets, fetched, wire, prev, last_put, old>>
    /\ UNCHANGED aux_vars

\* ManualTimeSource::advance
Advance == \E t \in Instants : AdvanceTo(t)

\* Get dropping the cached token when the path does not parse
Get_DropsToken ==
    /\ pc = "idle"
    /\ \E path_ok \in BOOLEAN :
         IF make_operation(path_ok) = "InvalidPath"
         THEN /\ result' = [kind |-> "InvalidPath", err |-> "", status |-> 0]
              /\ entered' = FALSE
              /\ pc' = "idle"
              /\ get_attempt' = 0
              /\ put_attempt' = 0
              /\ puts' = 0
              /\ gets' = 0
              /\ wire' = None
              /\ cache' = None
              /\ UNCHANGED issued
         ELSE /\ result' = NoResult
              /\ entered' = TRUE
              /\ Dispatch(1, 0, 0, None)
    /\ old' = IF cache = None THEN 0 ELSE cache[1].value
    /\ prev' = None
    /\ last_put' = None
    /\ fetched' = 0
    /\ UNCHANGED <<now, max_attempts>>
    /\ UNCHANGED aux_vars

\* Client::get is called
Get ==
    /\ pc = "idle"
    /\ \E path_ok \in BOOLEAN :
         IF make_operation(path_ok) = "InvalidPath"
         THEN /\ result' = [kind |-> "InvalidPath", err |-> "", status |-> 0]
              /\ entered' = FALSE
              /\ pc' = "idle"
              /\ get_attempt' = 0
              /\ put_attempt' = 0
              /\ puts' = 0
              /\ gets' = 0
              /\ wire' = None
              /\ UNCHANGED <<cache, issued>>
         ELSE /\ result' = NoResult
              /\ entered' = TRUE
              /\ Dispatch(1, 0, 0, None)
    /\ old' = IF cache = None THEN 0 ELSE cache[1].value
    /\ prev' = None
    /\ last_put' = None
    /\ fetched' = 0
    /\ UNCHANGED <<now, max_attempts>>
    /\ UNCHANGED aux_vars

\* the answer to the token PUT arrives
TokenResponse ==
    /\ pc = "token_wait"
    /\ \E r \in TokenAnswers :
         LET parsed == IF r.io THEN [ok |-> FALSE, err |-> "DispatchFailure"]
                       ELSE GetTokenResponseHandler_parse(r)
             kind == classify_retry([ok |-> parsed.ok, raw |-> ~r.io, status |-> r.status])
             \* a failed token fetch is a ConstructionFailure of the get operation
             failure == [variant |-> "ConstructionFailure", err |-> parsed.err,
                         status |-> r.status]
             get_kind == classify_retry([ok |-> FALSE, raw |-> FALSE, status |-> 0])
         IN  /\ last_put' = Some([status |-> r.status, body_ok |-> r.body_ok,
                                  ttl |-> r.ttl, secs |-> r.secs])
             /\ IF kind = "Unnecessary"
                THEN \* the cache is replaced, the token attached, the GET sent
                     /\ issued < MaxTokens
                     /\ issued' = issued + 1
                     /\ cache' = Replace(cache, Token(r, issued + 1, now))
                     /\ fetched' = fetched + 1
                     /\ pc' = "get_wait"
                     /\ wire' = Some(OnWire(cache'[1], TRUE, now))
                     /\ gets' = gets + 1
                     /\ entered' = FALSE
                     /\ UNCHANGED <<put_attempt, puts, result, get_attempt>>
                ELSE IF should_retry(kind, put_attempt, max_attempts)
                THEN \* the PUT is sent again
                     /\ put_attempt' = put_attempt + 1
                     /\ puts' = puts + 1
                     /\ entered' = FALSE
                     /\ UNCHANGED <<issued, cache, fetched, pc, wire, gets, result,
                                    get_attempt>>
                ELSE IF should_retry(get_kind, get_attempt, max_attempts)
                THEN \* the get operation is attempted again
                     /\ Dispatch(get_attempt + 1, puts, gets, wire)
                     /\ entered' = TRUE
                     /\ UNCHANGED <<fetched, result>>
                ELSE \* get returns the token failure
                     /\ result' = map_err(failure)
                     /\ pc' = "idle"
                     /\ entered' = FALSE
                     /\ UNCHANGED <<issued, cache, fetched, wire, gets, put_attempt, puts,
                                    get_attempt>>
    /\ UNCHANGED <<now, max_attempts, prev, old>>
    /\ UNCHANGED aux_vars

\* GetResponse retrying every retryable answer, whatever the attempt count
GetResponse_NoBudget ==
    /\ pc = "get_wait"
    /\ \E r \in GetAnswers :
         LET parsed == IF r.io THEN "DispatchFailure" ELSE ImdsGetResponseHandler_parse(r)
             kind == classify_retry([ok |-> parsed = "Ok", raw |-> ~r.io, status |-> r.status])
         IN  /\ prev' = Some([status |-> r.status, text |-> r.utf8, value |-> wire[1].value])
             /\ IF kind = "Unnecessary"
                THEN /\ result' = Ok
                     /\ pc' = "idle"
                     /\ entered' = FALSE
                     /\ UNCHANGED <<cache, issued, get_attempt, put_attempt, puts, gets, wire>>
                ELSE IF kind = "Error"
                THEN /\ Dispatch(get_attempt + 1, puts, gets, wire)
                     /\ entered' = TRUE
                     /\ UNCHANGED result
                ELSE /\ result' = map_err(IF r.io
                                          THEN [variant |-> "DispatchFailure", err |-> "",
                                                status |-> 0]
                                          ELSE [variant |-> "ServiceError", err |-> parsed,
                                                status |-> r.status])
                     /\ pc' = "idle"
                     /\ entered' = FALSE
                     /\ UNCHANGED <<cache, issued, get_attempt, put_attempt, puts, gets, wire>>
    /\ UNCHANGED <<now, max_attempts, fetched, last_put, old>>
    /\ UNCHANGED aux_vars

\* GetResponse dropping the cached token when get returns an error
GetResponse_DropsToken ==
    /\ pc = "get_wait"
    /\ \E r \in GetAnswers :
         LET parsed == IF r.io THEN "DispatchFailure" ELSE ImdsGetResponseHandler_parse(r)
             kind == classify_retry([ok |-> parsed = "Ok", raw |-> ~r.io, status |-> r.status])
         IN  /\ prev' = Some([status |-> r.status, text |-> r.utf8, value |-> wire[1].value])
             /\ IF kind = "Unnecessary"
                THEN /\ result' = Ok
                     /\ pc' = "idle"
                     /\ entered' = FALSE
                     /\ UNCHANGED <<cache, issued, get_attempt, put_attempt, puts, gets, wire>>
                ELSE IF should_retry(kind, get_attempt, max_attempts)
                THEN /\ Dispatch(get_attempt + 1, puts, gets, wire)
                     /\ entered' = TRUE
                     /\ UNCHANGED result
                ELSE /\ result' = map_err(IF r.io
                                          THEN [variant |-> "DispatchFailure", err |-> "",
                                                status |-> 0]
                                          ELSE [variant |-> "ServiceError", err |-> parsed,
                                                status |-> r.status])
                     /\ pc' = "idle"
                     /\ entered' = FALSE
                     /\ cache' = None
                     /\ UNCHANGED <<issued, get_attempt, put_attempt, puts, gets, wire>>
    /\ UNCHANGED <<now, max_attempts, fetched, last_put, old>>
    /\ UNCHANGED aux_vars

\* mutant: a get that ends on a 401 forgets the cached token
GetResponse_Forgets401 ==
    /\ pc = "get_wait"
    /\ \E r \in GetAnswers :
         LET parsed == IF r.io THEN "DispatchFailure" ELSE ImdsGetResponseHandler_parse(r)
             kind == classify_retry([ok |-> parsed = "Ok", raw |-> ~r.io, status |-> r.status])
         IN  /\ prev' = Some([status |-> r.status, text |-> r.utf8, value |-> wire[1].value])
             /\ IF kind = "Unnecessary"
                THEN /\ result' = Ok
                     /\ pc' = "idle"
                     /\ entered' = FALSE
                     /\ UNCHANGED <<cache, issued, get_attempt, put_attempt, puts, gets, wire>>
                ELSE IF should_retry(kind, get_attempt, max_attempts)
                THEN /\ Dispatch(get_attempt + 1, puts, gets, wire)
                     /\ entered' = TRUE
                     /\ UNCHANGED result
                ELSE /\ result' = map_err(IF r.io
                                          THEN [variant |-> "DispatchFailure", err |-> "",
                                                status |-> 0]
                                          ELSE [variant |-> "ServiceError", err |-> parsed,
                                                status |-> r.status])
                     /\ pc' = "idle"
                     /\ entered' = FALSE
                     /\ cache' = IF r.status = 401 THEN None ELSE cache
                     /\ UNCHANGED <<issued, get_attempt, put_attempt, puts, gets, wire>>
    /\ UNCHANGED <<now, max_attempts, fetched, last_put, old>>
    /\ UNCHANGED aux_vars

\* the answer to the metadata GET arrives
GetResponse ==
    /\ pc = "get_wait"
    /\ \E r \in GetAnswers :
         LET parsed == IF r.io THEN "DispatchFailure" ELSE ImdsGetResponseHandler_parse(r)
             kind == classify_retry([ok |-> parsed = "Ok", raw |-> ~r.io, status |-> r.status])
         IN  /\ prev' = Some([status |-> r.status, text |-> r.utf8, value |-> wire[1].value])
             /\ IF kind = "Unnecessary"
                THEN /\ result' = Ok
                     /\ pc' = "idle"
                     /\ entered' = FALSE
                     /\ UNCHANGED <<cache, issued, get_attempt, put_attempt, puts, gets, wire>>
                ELSE IF should_retry(kind, get_attempt, max_attempts)
                THEN /\ Dispatch(get_attempt + 1, puts, gets, wire)
                     /\ entered' = TRUE
                     /\ UNCHANGED result
                ELSE /\ result' = map_err(IF r.io
                                          THEN [variant |-> "DispatchFailure", err |-> "",
                                                status |-> 0]
                                          ELSE [variant |-> "ServiceError", err |-> parsed,
                                                status |-> r.status])
                     /\ pc' = "idle"
                     /\ entered' = FALSE
                     /\ UNCHANGED <<cache, issued, get_attempt, put_attempt, puts, gets, wire>>
    /\ UNCHANGED <<now, max_attempts, fetched, last_put, old>>
    /\ UNCHANGED aux_vars

Next == Advance \/ Get \/ TokenResponse \/ GetResponse

Spec == Init /\ [][Next]_vars

\* The client with every request answered (by a response, or by the
\* connector's error when the connect or read timeout elapses), and the clock
\* either at the start or at the expiry of the longest TTL granted.
NextAnswered == Get \/ TokenResponse \/ GetResponse \/ AdvanceTo(MaxTime)

SpecAnswered ==
    Init /\ [][NextAnswered]_vars /\ WF_vars(TokenResponse) /\ WF_vars(GetResponse)

(***************************************************************************)
(* The retry classifier on its own: the retry loops of the two operations  *)
(* (the token fetch and the metadata get) hand it one outcome after the    *)
(* other.                                                                  *)
(***************************************************************************)
\* http::StatusCode holds 100..999; these are the bounds of each class, 401,
\* the other statuses of the classifier's documentation, and statuses past
\* the server-error class.
StatusCodes == {100, 200, 299, 300, 400, 401, 403, 404, 499, 500, 599, 600, 999}

\* the variants of SdkError
SdkErrors == {"ConstructionFailure", "TimeoutError", "DispatchFailure",
              "ResponseError", "ServiceError"}

\* ResponseError and ServiceError carry the raw response
has_raw(variant) == variant \in {"ResponseError", "ServiceError"}

\* Result<&SdkSuccess<T>, &SdkError<E>>
Outcomes ==
    {[ok |-> TRUE, raw |-> TRUE, status |-> s, variant |-> "Ok"] : s \in StatusCodes}
    \cup {[ok |-> FALSE, raw |-> TRUE, status |-> s, variant |-> v] :
            s \in StatusCodes, v \in {e \in SdkErrors : has_raw(e)}}
    \cup {[ok |-> FALSE, raw |-> FALSE, status |-> 0, variant |-> v] :
            v \in {e \in SdkErrors : ~has_raw(e)}}

\* a Client at rest, as built with the default retry configuration
ClientAtRest ==
    /\ now = 0 /\ max_attempts = DEFAULT_ATTEMPTS
    /\ cache = None /\ issued = 0
    /\ pc = "idle" /\ get_attempt = 0 /\ put_attempt = 0 /\ result = NoResult
    /\ puts = 0 /\ gets = 0 /\ fetched = 0
    /\ wire = None /\ prev = None /\ last_put = None /\ old = 0 /\ entered = FALSE

InitClassify ==
    /\ ClientAtRest
    /\ classified = <<>>
    /\ OutcomeAtRest
    /\ CloneAtRest
    /\ WireAtRest
    /\ ModeAtRest
    /\ BuildAtRest
    /\ LazyAtRest

\* the retry loop of operation op hands an outcome to the classifier
Classify(op) ==
    /\ Len(classified) < MaxCalls
    /\ \E o \in Outcomes :
         classified' = Append(classified, [operation |-> op, outcome |-> o,
                                           kind |-> classify_retry(o)])
    /\ UNCHANGED <<client_vars, outcome_vars, clone_vars, wire_vars, mode_vars, build_vars, lazy_vars>>

ClassifyTokenFetch == Classify("token")

ClassifyGet == Classify("get")

NextClassify == ClassifyTokenFetch \/ ClassifyGet

SpecClassify == InitClassify /\ [][NextClassify]_vars

(***************************************************************************)
(* EndpointMode: from_str and endpoint                                     *)
(***************************************************************************)
\* A mode string is a sequence of characters.
Result_Ok(v) == [ok |-> TRUE, val |-> v]
Result_Err(e) == [ok |-> FALSE, val |-> e]

\* mutant: no case folding
to_ascii_lowercase_Id(c) == c

\* u8::to_ascii_lowercase, on the letters the mode strings are made of
to_ascii_lowercase(c) ==
    CASE c = "I" -> "i"
      [] c = "P" -> "p"
      [] c = "V" -> "v"
      [] OTHER -> c

\* str::eq_ignore_ascii_case: same length, and equal character by character
\* after ASCII lower-casing
eq_ignore_ascii_case(a, b) ==
    /\ Len(a) = Len(b)
    /\ \A i \in 1..Len(a) : to_ascii_lowercase(a[i]) = to_ascii_lowercase(b[i])

\* <EndpointMode as FromStr>::from_str
from_str(value) ==
    IF eq_ignore_ascii_case(value, <<"i", "p", "v", "4">>) THEN Result_Ok("IpV4")
    ELSE IF eq_ignore_ascii_case(value, <<"i", "p", "v", "6">>) THEN Result_Ok("IpV6")
    ELSE Result_Err([error |-> "InvalidEndpointMode", value |-> value])

\* EndpointMode::endpoint
EndpointMode_endpoint(mode) ==
    CASE mode = "IpV4" -> "http://169.254.169.254"
      [] mode = "IpV6" -> "http://[fd00:ec2::254]"

\* the characters of the strings handed to from_str
ModeChars == {"i", "I", "p", "P", "v", "V", "4", "6"}

ModeStrings == UNION {[1..n -> ModeChars] : n \in 0..MaxModeLen}

InitMode ==
    /\ ClientAtRest
    /\ classified = <<>>
    /\ OutcomeAtRest
    /\ CloneAtRest
    /\ WireAtRest
    /\ BuildAtRest
    /\ LazyAtRest
    /\ mode_str \in ModeStrings
    /\ mode_parsed = None
    /\ mode_uri = None

\* mode.parse::<EndpointMode>()
ParseMode ==
    /\ mode_parsed = None
    /\ mode_parsed' = Some(from_str(mode_str))
    /\ UNCHANGED <<mode_str, mode_uri>>
    /\ UNCHANGED <<client_vars, outcome_vars, clone_vars, wire_vars, classified, build_vars, lazy_vars>>

\* mode.endpoint()
ModeEndpoint ==
    /\ mode_parsed # None /\ mode_parsed[1].ok
    /\ mode_uri = None
    /\ mode_uri' = Some(EndpointMode_endpoint(mode_parsed[1].val))
    /\ UNCHANGED <<mode_str, mode_parsed>>
    /\ UNCHANGED <<client_vars, outcome_vars, clone_vars, wire_vars, classified, build_vars, lazy_vars>>

NextMode == ParseMode \/ ModeEndpoint

SpecMode == InitMode /\ [][NextMode]_vars

(***************************************************************************)
(* Endpoint resolution (EndpointSource::endpoint) and Builder::build       *)
(***************************************************************************)
\* the Uri given to Builder::endpoint
ExplicitUri == "http://explicit.example:8080"

\* values of AWS_EC2_METADATA_SERVICE_ENDPOINT and of the profile key
\* ec2_metadata_service_endpoint: a URI, and a string that is none
EnvUris == {"http://env.example", "env: not a uri"}
ProfileUris == {"http://profile.example", "profile: not a uri"}

\* the strings above that parse as a Uri
WellFormedUris == {"http://env.example", "http://profile.example"}

\* values of AWS_EC2_METADATA_SERVICE_ENDPOINT_MODE and of the profile key
\* ec2_metadata_service_endpoint_mode
EnvModes == {<<"I", "P", "v", "6">>, <<"v", "6">>}
ProfileModes == {<<"i", "p", "v", "6">>, <<"I", "P", "V", "4">>, <<"i", "p", "6">>}

Option(S) == {None} \cup {Some(x) : x \in S}

Envs == [endpoint : Option(EnvUris), mode : Option(EnvModes)]

\* a profile file that cannot be loaded, or one with the two keys set or not
Profiles ==
    {[loads |-> FALSE, endpoint |-> None, mode |-> None]}
    \cup [loads : {TRUE}, endpoint : Option(ProfileUris), mode : Option(ProfileModes)]

\* Builder after any of endpoint() and endpoint_mode()
Builders == [endpoint : Option({ExplicitUri}), mode_override : Option({"IpV4", "IpV6"})]

\* mutant: any string is taken as a Uri
Uri_try_from_Lenient(s) == Result_Ok(s)

\* Uri::try_from(&str)
Uri_try_from(s) ==
    IF s \in WellFormedUris THEN Result_Ok(s)
    ELSE Result_Err([error |-> "InvalidEndpointUri", value |-> s])

\* profile::load(fs, env, ..).map_err(BuildError::InvalidProfile)
profile_load(p) ==
    IF p.loads THEN Result_Ok(p)
    ELSE Result_Err([error |-> "InvalidProfile", value |-> ""])

\* mutant: the profile key is looked up before the environment variable
uri_override_ProfileFirst(e, p) ==
    IF p.endpoint # None THEN p.endpoint ELSE e.endpoint

\* the endpoint override: the environment variable, else the profile key
uri_override(e, p) ==
    IF e.endpoint # None THEN e.endpoint ELSE p.endpoint

\* mutant: an unknown mode string falls back to the next source
Env_mode_Fallback(mode_override, e, p) ==
    IF mode_override # None THEN Result_Ok(mode_override[1])
    ELSE IF e.mode # None /\ from_str(e.mode[1]).ok THEN from_str(e.mode[1])
    ELSE IF p.mode # None /\ from_str(p.mode[1]).ok THEN from_str(p.mode[1])
    ELSE Result_Ok("IpV4")

\* mutant: the mode strings of the environment and of the profile are parsed
\* even when the mode override decides
Env_mode_ValidateAll(mode_override, e, p) ==
    IF e.mode # None /\ ~from_str(e.mode[1]).ok THEN from_str(e.mode[1])
    ELSE IF p.mode # None /\ ~from_str(p.mode[1]).ok THEN from_str(p.mode[1])
    ELSE IF mode_override # None THEN Result_Ok(mode_override[1])
    ELSE IF e.mode # None THEN from_str(e.mode[1])
    ELSE IF p.mode # None THEN from_str(p.mode[1])
    ELSE Result_Ok("IpV4")

\* the endpoint mode: the override, else the environment variable, else the
\* profile key, else IpV4; an unknown mode string is InvalidEndpointMode
Env_mode(mode_override, e, p) ==
    IF mode_override # None THEN Result_Ok(mode_override[1])
    ELSE IF e.mode # None THEN from_str(e.mode[1])
    ELSE IF p.mode # None THEN from_str(p.mode[1])
    ELSE Result_Ok("IpV4")

\* mutant: a mode override replaces the explicit endpoint
Explicit_endpoint_ModeWins(uri, mode_override) ==
    IF mode_override # None THEN Result_Ok(EndpointMode_endpoint(mode_override[1]))
    ELSE Result_Ok(uri)

\* EndpointSource::Explicit(uri): the mode override is only warned about
Explicit_endpoint(uri, mode_override) == Result_Ok(uri)

\* mutant: the profile is loaded only when the environment names no endpoint
Env_endpoint_LazyProfile(e, p, mode_override) ==
    IF e.endpoint # None THEN Uri_try_from(e.endpoint[1])
    ELSE LET loaded == profile_load(p)
         IN  IF ~loaded.ok THEN loaded
             ELSE IF loaded.val.endpoint # None THEN Uri_try_from(loaded.val.endpoint[1])
             ELSE LET m == Env_mode(mode_override, e, loaded.val)
                  IN  IF ~m.ok THEN m
                      ELSE Result_Ok(EndpointMode_endpoint(m.val))

\* EndpointSource::Env(env, fs): the profile is loaded first
Env_endpoint(e, p, mode_override) ==
    LET loaded == profile_load(p)
    IN  IF ~loaded.ok THEN loaded
        ELSE LET uri == uri_override(e, loaded.val)
             IN  IF uri # None THEN Uri_try_from(uri[1])
                 ELSE LET m == Env_mode(mode_override, e, loaded.val)
                      IN  IF ~m.ok THEN m
                          ELSE Result_Ok(EndpointMode_endpoint(m.val))

\* self.endpoint.unwrap_or_else(|| EndpointSource::Env(..)).endpoint(mode_override)
EndpointSource_endpoint(source, mode_override, e, p) ==
    IF source # None THEN Explicit_endpoint(source[1], mode_override)
    ELSE Env_endpoint(e, p, mode_override)

\* Builder::build: the Client holds the resolved endpoint
Builder_build(b, e, p) ==
    LET endpoint == EndpointSource_endpoint(b.endpoint, b.mode_override, e, p)
    IN  IF endpoint.ok THEN Result_Ok([endpoint |-> endpoint.val]) ELSE endpoint

(***************************************************************************)
(* LazyClient                                                              *)
(***************************************************************************)
\* mutant: a failed build does not count as initialized
initialized_OkOnly(c) == c # None /\ c[1].ok

\* OnceCell::initialized
initialized(c) == c # None

\* mutant: build_lazy runs build at once
build_lazy_Eager(b, e, p) == Some(Builder_build(b, e, p))

\* Builder::build_lazy: the LazyClient's cell is OnceCell::new(), whatever the
\* builder and the environment e and file system p of its ProviderConfig hold
build_lazy(b, e, p) == None

\* Builder::build_lazy with any builder, environment and profile; or
\* LazyClient::from_ready_client, whose builder is never used
InitBuild ==
    /\ ClientAtRest
    /\ classified = <<>>
    /\ OutcomeAtRest
    /\ CloneAtRest
    /\ WireAtRest
    /\ ModeAtRest
    /\ LazyAtRest
    /\ env \in Envs
    /\ profile \in Profiles
    /\ \/ builder \in Builders /\ cell = build_lazy(builder, env, profile)
       \/ /\ builder = [endpoint |-> None, mode_override |-> None]
          /\ cell = Some(Result_Ok([endpoint |-> ExplicitUri]))
    /\ returned = <<>>
    /\ built_from = None
    /\ builds = 0
    /\ sent_to = None
    /\ changes = 0

\* LazyClient::client: get_or_init runs build when the cell is empty
LazyClient_client ==
    /\ Len(returned) < MaxClientCalls
    /\ IF initialized(cell)
       THEN UNCHANGED <<cell, builds, built_from>>
       ELSE /\ cell' = Some(Builder_build(builder, env, profile))
            /\ builds' = builds + 1
            /\ built_from' = Some([env |-> env, profile |-> profile])
    /\ returned' = Append(returned, cell'[1])
    /\ UNCHANGED <<builder, env, profile, sent_to, changes>>
    /\ UNCHANGED <<client_vars, outcome_vars, clone_vars, wire_vars, classified, mode_vars, lazy_vars>>

\* an environment variable is set or removed
Setenv ==
    /\ changes < MaxChanges
    /\ \E e \in Envs :
         /\ e # env
         /\ e.endpoint = env.endpoint \/ e.mode = env.mode
         /\ env' = e
    /\ changes' = changes + 1
    /\ UNCHANGED <<builder, profile, cell, returned, built_from, builds, sent_to>>
    /\ UNCHANGED <<client_vars, outcome_vars, clone_vars, wire_vars, classified, mode_vars, lazy_vars>>

\* the profile file is rewritten
WriteProfile ==
    /\ changes < MaxChanges
    /\ \E p \in Profiles : p # profile /\ profile' = p
    /\ changes' = changes + 1
    /\ UNCHANGED <<builder, env, cell, returned, built_from, builds, sent_to>>
    /\ UNCHANGED <<client_vars, outcome_vars, clone_vars, wire_vars, classified, mode_vars, lazy_vars>>

\* the first request of the Client that client() returned: make_operation
\* sets the Client's endpoint on it
SendFirstRequest ==
    /\ returned # <<>> /\ returned[Len(returned)].ok
    /\ sent_to = None
    /\ sent_to' = Some(returned[Len(returned)].val.endpoint)
    /\ UNCHANGED <<builder, env, profile, cell, returned, built_from, builds, changes>>
    /\ UNCHANGED <<client_vars, outcome_vars, clone_vars, wire_vars, classified, mode_vars, lazy_vars>>

NextBuild == LazyClient_client \/ Setenv \/ WriteProfile \/ SendFirstRequest

SpecBuild == InitBuild /\ [][NextBuild]_vars

(***************************************************************************)
(* LazyClient::client called by concurrent tasks.  OnceCell::get_or_init   *)
(* returns the value if the cell is set; otherwise the caller waits for    *)
(* the cell's one permit, runs the init future while holding it, stores    *)
(* the value and closes the semaphore, which wakes every waiter.  A task   *)
(* may be dropped at any await; a dropped holder gives the permit back.    *)
(***************************************************************************)
Callers == 1..MaxCallers

\* mutant: the permit is handed out while another caller holds it
permit_free_Always(p) == TRUE

\* the semaphore has its permit
permit_free(p) == p = 0

InitLazy ==
    /\ ClientAtRest
    /\ classified = <<>>
    /\ OutcomeAtRest
    /\ CloneAtRest
    /\ WireAtRest
    /\ ModeAtRest
    /\ builder \in Builders /\ env \in Envs /\ profile \in Profiles
    /\ cell = build_lazy(builder, env, profile)
    /\ returned = <<>> /\ built_from = None /\ builds = 0
    /\ sent_to = None /\ changes = 0
    /\ lazy_pc = [c \in Callers |-> "idle"]
    /\ got = [c \in Callers |-> None]
    /\ permit = 0 /\ warned = 0 /\ started = 0

\* caller c calls client(): the value if the cell is set, else it waits
CallClient(c) ==
    /\ lazy_pc[c] = "idle"
    /\ IF initialized(cell)
       THEN /\ got' = [got EXCEPT ![c] = Some(cell[1])]
            /\ lazy_pc' = [lazy_pc EXCEPT ![c] = "done"]
       ELSE /\ lazy_pc' = [lazy_pc EXCEPT ![c] = "waiting"]
            /\ UNCHANGED got
    /\ UNCHANGED <<permit, warned, started, build_vars>>
    /\ UNCHANGED <<client_vars, outcome_vars, clone_vars, wire_vars, classified, mode_vars>>

\* a waiting caller gets the permit and starts builder.clone().build()
AcquirePermit(c) ==
    /\ lazy_pc[c] = "waiting"
    /\ ~initialized(cell)
    /\ permit_free(permit)
    /\ permit' = c
    /\ started' = started + 1
    /\ lazy_pc' = [lazy_pc EXCEPT ![c] = "building"]
    /\ UNCHANGED <<got, warned, build_vars>>
    /\ UNCHANGED <<client_vars, outcome_vars, clone_vars, wire_vars, classified, mode_vars>>

\* build completes in the holder's init future: the warning on Err, then
\* the value is set and returned, in one poll
FinishBuild(c) ==
    /\ lazy_pc[c] = "building"
    /\ LET client == Builder_build(builder, env, profile)
       IN  /\ warned' = IF client.ok THEN warned ELSE warned + 1
           /\ cell' = Some(client)
           /\ got' = [got EXCEPT ![c] = Some(client)]
    /\ built_from' = Some([env |-> env, profile |-> profile])
    /\ builds' = builds + 1
    /\ permit' = 0
    /\ lazy_pc' = [lazy_pc EXCEPT ![c] = "done"]
    /\ UNCHANGED <<started, builder, env, profile, returned, sent_to, changes>>
    /\ UNCHANGED <<client_vars, outcome_vars, clone_vars, wire_vars, classified, mode_vars>>

\* a waiter is woken by the closed semaphore and reads the value
WakeWaiter(c) ==
    /\ lazy_pc[c] = "waiting"
    /\ initialized(cell)
    /\ got' = [got EXCEPT ![c] = Some(cell[1])]
    /\ lazy_pc' = [lazy_pc EXCEPT ![c] = "done"]
    /\ UNCHANGED <<permit, warned, started, build_vars>>
    /\ UNCHANGED <<client_vars, outcome_vars, clone_vars, wire_vars, classified, mode_vars>>

\* the caller's future is dropped at an await
DropCaller(c) ==
    /\ lazy_pc[c] \in {"waiting", "building"}
    /\ lazy_pc' = [lazy_pc EXCEPT ![c] = "dropped"]
    /\ permit' = IF permit = c THEN 0 ELSE permit
    /\ UNCHANGED <<got, warned, started, build_vars>>
    /\ UNCHANGED <<client_vars, outcome_vars, clone_vars, wire_vars, classified, mode_vars>>

NextLazy ==
    \E c \in Callers :
        \/ CallClient(c)
        \/ AcquirePermit(c)
        \/ FinishBuild(c)
        \/ WakeWaiter(c)
        \/ DropCaller(c)

SpecLazy == InitLazy /\ [][NextLazy]_vars

(***************************************************************************)
(* Client::get as a function of the path and of how the last attempt of    *)
(* the get operation ended.                                                *)
(***************************************************************************)
\* the failures of the token loader, which reach get as a ConstructionFailure
\* holding an ImdsError; "Other" is a ConstructionFailure holding anything else
TokenFailures == {"InvalidParameters", "Forbidden", "InvalidToken", "NoTtl", "InvalidTtl",
                  "DispatchFailure"}

\* How the last attempt ended: before the request was sent ("construction"),
\* without a response ("timeout", "dispatch"), with a response that could not
\* be read ("unreadable"), or with a response handed to the response handler.
CallOutcomes ==
    {[stage |-> "construction", err |-> e, status |-> s, utf8 |-> TRUE] :
        e \in TokenFailures \cup {"Other"}, s \in StatusCodes}
    \cup {[stage |-> g, err |-> "", status |-> 0, utf8 |-> TRUE] : g \in {"timeout", "dispatch"}}
    \cup {[stage |-> "unreadable", err |-> "", status |-> s, utf8 |-> TRUE] : s \in StatusCodes}
    \cup {[stage |-> "response", err |-> "", status |-> s, utf8 |-> b] :
            s \in StatusCodes, b \in BOOLEAN}

\* what smithy_client.call returns for the outcome o: Ok or an SdkError
smithy_client_call(o) ==
    CASE o.stage = "construction" ->
            Result_Err([variant |-> "ConstructionFailure", err |-> o.err, status |-> o.status])
      [] o.stage = "timeout" ->
            Result_Err([variant |-> "TimeoutError", err |-> "", status |-> 0])
      [] o.stage = "dispatch" ->
            Result_Err([variant |-> "DispatchFailure", err |-> "", status |-> 0])
      [] o.stage = "unreadable" ->
            Result_Err([variant |-> "ResponseError", err |-> "", status |-> o.status])
      [] o.stage = "response" ->
            LET parsed == ImdsGetResponseHandler_parse(o)
            IN  IF parsed = "Ok"
                THEN Result_Ok("body")
                ELSE Result_Err([variant |-> "ServiceError", err |-> parsed,
                                 status |-> o.status])

\* Client::get
Client_get(path_ok, o) ==
    IF make_operation(path_ok) = "InvalidPath"
    THEN [kind |-> "InvalidPath", err |-> "", status |-> 0]
    ELSE LET called == smithy_client_call(o)
         IN  IF called.ok THEN Ok ELSE map_err(called.val)

InitOutcome ==
    /\ ClientAtRest
    /\ classified = <<>>
    /\ path_parses \in BOOLEAN
    /\ call_outcome \in CallOutcomes
    /\ get_result = <<>>
    /\ CloneAtRest
    /\ WireAtRest
    /\ ModeAtRest
    /\ BuildAtRest
    /\ LazyAtRest

\* get returns
GetReturns ==
    /\ get_result = <<>>
    /\ get_result' = <<Client_get(path_parses, call_outcome)>>
    /\ UNCHANGED <<path_parses, call_outcome>>
    /\ UNCHANGED <<client_vars, classified, clone_vars, wire_vars, mode_vars, build_vars, lazy_vars>>

NextOutcome == GetReturns

SpecOutcome == InitOutcome /\ [][NextOutcome]_vars

(***************************************************************************)
(* Clones of one Client in concurrent use.  Client is an Arc<ClientInner>: *)
(* a clone is another handle on the same ClientInner, whose smithy client  *)
(* holds the ImdsMiddleware and with it the token cache.  A get reads the  *)
(* cache, and fetches a token when there is none it can use; gets through  *)
(* different handles interleave.                                           *)
(***************************************************************************)
Handles == 1..Len(handles)

\* instants of the gets: the start, the last instant before the refresh
\* buffer of a 600 s token, and its expiry
CloneInstants == {0, 479, 600}

\* TTLs granted to these gets: 0 (a token that is never usable again) and 600
CloneTtls == {0, 600}

NewCall == [pc |-> "new", at |-> 0, had |-> None, fetched |-> FALSE, value |-> 0]

InitClones ==
    /\ ClientAtRest
    /\ classified = <<>>
    /\ OutcomeAtRest
    /\ handles = <<1>>
    /\ inners = <<None>>
    /\ calls = <<NewCall>>
    /\ responses = {}
    /\ latest = None
    /\ fetched_by = 0
    /\ WireAtRest
    /\ ModeAtRest
    /\ BuildAtRest
    /\ LazyAtRest

clones_frame ==
    UNCHANGED <<max_attempts, cache, pc, get_attempt, put_attempt, result, puts, gets,
                fetched, wire, prev, last_put, old, entered, classified, outcome_vars,
                wire_vars, mode_vars, build_vars, lazy_vars>>

\* mutant: a clone gets a ClientInner of its own, holding a copy of the cache
Client_clone_Deep(h) ==
    /\ h \in Handles
    /\ Len(handles) < MaxClones
    /\ handles' = Append(handles, Len(inners) + 1)
    /\ inners' = Append(inners, inners[handles[h]])
    /\ calls' = Append(calls, NewCall)
    /\ UNCHANGED <<now, issued, responses, latest, fetched_by>>
    /\ clones_frame

\* #[derive(Clone)] on Client: Arc::clone of inner
Client_clone(h) ==
    /\ h \in Handles
    /\ Len(handles) < MaxClones
    /\ handles' = Append(handles, handles[h])
    /\ calls' = Append(calls, NewCall)
    /\ UNCHANGED <<now, issued, inners, responses, latest, fetched_by>>
    /\ clones_frame

\* a get through handle h reads the cache: a usable token is attached and the
\* get goes on with it, otherwise a token fetch starts
StartGet(h) ==
    /\ h \in Handles
    /\ calls[h].pc # "fetching"
    /\ LET cached == inners[handles[h]]
       IN  IF cached # None /\ Usable(cached[1], now)
           THEN calls' = [calls EXCEPT ![h] = [pc |-> "done", at |-> now, had |-> cached,
                                               fetched |-> FALSE,
                                               value |-> cached[1].value]]
           ELSE calls' = [calls EXCEPT ![h] = [pc |-> "fetching", at |-> now,
                                               had |-> cached, fetched |-> FALSE,
                                               value |-> 0]]
    /\ UNCHANGED <<now, issued, handles, inners, responses, latest, fetched_by>>
    /\ clones_frame

\* the token fetch of the get through h succeeds: the cache is replaced and
\* the token attached
FinishFetch(h) ==
    /\ h \in Handles
    /\ calls[h].pc = "fetching"
    /\ issued < MaxFetches
    /\ \E g \in CloneTtls :
         LET token == Token([secs |-> g], issued + 1, now)
         IN  /\ issued' = issued + 1
             /\ responses' = responses \cup {token}
             /\ inners' = [inners EXCEPT ![handles[h]] = Replace(@, token)]
             /\ latest' = Some(token)
             /\ fetched_by' = h
             /\ calls' = [calls EXCEPT ![h].pc = "done", ![h].fetched = TRUE,
                                       ![h].value = inners'[handles[h]][1].value]
    /\ UNCHANGED <<now, handles>>
    /\ clones_frame

\* the token fetch of the get through h fails: the get returns the failure
FailFetch(h) ==
    /\ h \in Handles
    /\ calls[h].pc = "fetching"
    /\ calls' = [calls EXCEPT ![h].pc = "failed"]
    /\ UNCHANGED <<now, issued, handles, inners, responses, latest, fetched_by>>
    /\ clones_frame

\* ManualTimeSource::advance
AdvanceClones ==
    /\ \E t \in CloneInstants : t > now /\ t <= MaxTime /\ now' = t
    /\ UNCHANGED <<issued, clone_vars>>
    /\ clones_frame

NextClones ==
    \/ \E h \in 1..MaxClones :
          Client_clone(h) \/ StartGet(h) \/ FinishFetch(h) \/ FailFetch(h)
    \/ AdvanceClones

SpecClones == InitClones /\ [][NextClones]_vars

(***************************************************************************)
(* The requests a Client puts on the wire: the request made by             *)
(* make_operation passes the token loader and the user-agent stage of      *)
(* ImdsMiddleware on every attempt; the token loader sends its own PUT     *)
(* when it has no usable token.                                            *)
(***************************************************************************)
X_AWS_EC2_METADATA_TOKEN == "x-aws-ec2-metadata-token"
X_AWS_EC2_METADATA_TOKEN_TTL_SECONDS == "x-aws-ec2-metadata-token-ttl-seconds"
USER_AGENT == "user-agent"

\* A URI is a sequence of parts, the endpoint first; a request is
\* [method, uri, headers, properties], headers a set of <<name, value>>.
WireEndpoints == {<<"http://169.254.169.254">>, <<"http://[fd00:ec2::254]">>}
WirePaths == {<<"/latest/metadata">>, <<"/latest/user-data">>}
TokenPath == <<"/latest/api/token">>

\* TTLs granted: 0 (test::retry_metadata_401), the refresh buffer itself, and
\* the 600 of test::token_can_expire
WireTtls == {0, 120, 600}

\* Builders: the resolved endpoint, and each option left unset or set to a
\* value that is not its default
WireBuilders ==
    [endpoint : WireEndpoints, token_ttl : Option({900}), max_attempts : Option({1}),
     connect_timeout : Option({5}), read_timeout : Option({5})]

unwrap_or(option, default) == IF option = None THEN default ELSE option[1]

\* mutant: the token TTL of the builder is ignored
Builder_settings_DefaultTtl(b) ==
    [endpoint |-> b.endpoint,
     token_ttl |-> DEFAULT_TOKEN_TTL,
     max_attempts |-> unwrap_or(b.max_attempts, DEFAULT_ATTEMPTS),
     connect_timeout |-> unwrap_or(b.connect_timeout, DEFAULT_CONNECT_TIMEOUT),
     read_timeout |-> unwrap_or(b.read_timeout, DEFAULT_READ_TIMEOUT)]

\* what Builder::build configures the Client with
Builder_settings(b) ==
    [endpoint |-> b.endpoint,
     token_ttl |-> unwrap_or(b.token_ttl, DEFAULT_TOKEN_TTL),
     max_attempts |-> unwrap_or(b.max_attempts, DEFAULT_ATTEMPTS),
     connect_timeout |-> unwrap_or(b.connect_timeout, DEFAULT_CONNECT_TIMEOUT),
     read_timeout |-> unwrap_or(b.read_timeout, DEFAULT_READ_TIMEOUT)]

\* the request of the operation made by make_operation: the endpoint is set
\* on the path and the user agent put in the property bag
operation_request(endpoint, path) ==
    [method |-> "GET", uri |-> endpoint \o path, headers |-> {},
     properties |-> {"user_agent"}]

\* the request of the token loader's own operation
token_request(endpoint, ttl) ==
    [method |-> "PUT", uri |-> endpoint \o TokenPath,
     headers |-> {<<X_AWS_EC2_METADATA_TOKEN_TTL_SECONDS, ttl>>},
     properties |-> {"user_agent"}]

\* the token loader attaches the token
TokenMiddleware_add_token(request, token) ==
    [request EXCEPT !.headers = @ \cup {<<X_AWS_EC2_METADATA_TOKEN, token.value>>}]

\* UserAgentStage turns the user agent of the property bag into a header, and
\* fails when there is none
UserAgentStage_apply(request) ==
    IF "user_agent" \in request.properties
    THEN Result_Ok([request EXCEPT !.headers = @ \cup {<<USER_AGENT, "aws-sdk-rust">>}])
    ELSE Result_Err("UserAgentMissing")

\* mutant: the middleware is the token loader alone
ImdsMiddleware_layer_TokenOnly(request, token) ==
    Result_Ok(TokenMiddleware_add_token(request, token))

\* ImdsMiddleware::layer: the token loader, then the user-agent stage, then
\* the connector
ImdsMiddleware_layer(request, token) ==
    UserAgentStage_apply(TokenMiddleware_add_token(request, token))

\* what the connector sees of a request
on_the_wire(request) ==
    [method |-> request.method, uri |-> request.uri, headers |-> request.headers]

\* the values of the header called name
header(request, name) == {h[2] : h \in {x \in request.headers : x[1] = name}}

InitWire ==
    /\ ClientAtRest
    /\ classified = <<>>
    /\ OutcomeAtRest
    /\ CloneAtRest
    /\ wire_builder \in WireBuilders
    /\ wire_client = None
    /\ wire_path = <<>>
    /\ requests = <<>>
    /\ granted = <<>>
    /\ ModeAtRest
    /\ BuildAtRest
    /\ LazyAtRest

wire_frame ==
    UNCHANGED <<max_attempts, get_attempt, put_attempt, result, puts, gets, fetched, wire,
                prev, last_put, old, entered, classified, outcome_vars, clone_vars,
                mode_vars, build_vars, lazy_vars>>

\* Builder::build
WireBuild ==
    /\ wire_client = None
    /\ wire_client' = Some(Builder_settings(wire_builder))
    /\ UNCHANGED <<now, cache, issued, pc, wire_builder, wire_path, requests, granted>>
    /\ wire_frame

\* mutant: with no usable token cached the GET goes out as it is, without
\* a token
WireDispatch_NoToken(path) ==
    LET settings == wire_client[1]
        request == operation_request(settings.endpoint, path)
        sent == IF cache # None /\ Usable(cache[1], now)
                THEN ImdsMiddleware_layer(request, cache[1])
                ELSE UserAgentStage_apply(request)
    IN  requests' = Append(requests, on_the_wire(sent.val)) /\ pc' = "get_wait"

\* One attempt of the get operation for path: with a usable token cached the
\* GET goes out with it, otherwise the token PUT goes out first.
WireDispatch(path) ==
    LET settings == wire_client[1]
    IN  IF cache # None /\ Usable(cache[1], now)
        THEN LET sent == ImdsMiddleware_layer(operation_request(settings.endpoint, path),
                                              cache[1])
             IN  IF sent.ok
                 THEN requests' = Append(requests, on_the_wire(sent.val)) /\ pc' = "get_wait"
                 ELSE requests' = requests /\ pc' = "idle"
        ELSE LET sent == UserAgentStage_apply(token_request(settings.endpoint,
                                                            settings.token_ttl))
             IN  requests' = Append(requests, on_the_wire(sent.val)) /\ pc' = "token_wait"

\* Client::get
WireGet ==
    /\ wire_client # None
    /\ pc = "idle"
    /\ Len(requests) < MaxRequests
    /\ \E path \in WirePaths :
         /\ wire_path' = path
         /\ WireDispatch(path)
    /\ UNCHANGED <<now, cache, issued, wire_builder, wire_client, granted>>
    /\ wire_frame

\* The token PUT is answered: with a token and a granted TTL, and the GET
\* goes out with the token; or with an answer after which the PUT is sent
\* again; or with one that ends the get.
WireTokenAnswer ==
    /\ pc = "token_wait"
    /\ \/ /\ issued < MaxFetches
          /\ Len(requests) < MaxRequests
          /\ \E g \in WireTtls :
               /\ granted' = Append(granted, g)
               /\ issued' = issued + 1
               /\ cache' = Replace(cache, Token([secs |-> g], issued + 1, now))
               /\ LET sent == ImdsMiddleware_layer(
                                  operation_request(wire_client[1].endpoint, wire_path),
                                  cache'[1])
                  IN  IF sent.ok
                      THEN /\ requests' = Append(requests, on_the_wire(sent.val))
                           /\ pc' = "get_wait"
                      ELSE /\ requests' = requests
                           /\ pc' = "idle"
       \/ /\ Len(requests) < MaxRequests
          /\ requests' = Append(requests, requests[Len(requests)])
          /\ UNCHANGED <<cache, issued, pc, granted>>
       \/ /\ pc' = "idle"
          /\ UNCHANGED <<cache, issued, requests, granted>>
    /\ UNCHANGED <<now, wire_builder, wire_client, wire_path>>
    /\ wire_frame

\* The metadata GET is answered: the get returns, or the get operation is
\* attempted again.
WireGetAnswer ==
    /\ pc = "get_wait"
    /\ \/ pc' = "idle" /\ UNCHANGED requests
       \/ Len(requests) < MaxRequests /\ WireDispatch(wire_path)
    /\ UNCHANGED <<now, cache, issued, wire_builder, wire_client, wire_path, granted>>
    /\ wire_frame

\* ManualTimeSource::advance
AdvanceWire ==
    /\ \E t \in CloneInstants : t > now /\ t <= MaxTime /\ now' = t
    /\ UNCHANGED <<cache, issued, pc, wire_vars>>
    /\ wire_frame

NextWire == WireBuild \/ WireGet \/ WireTokenAnswer \/ WireGetAnswer \/ AdvanceWire

SpecWire == InitWire /\ [][NextWire]_vars

(***************************************************************************)
(* Claims                                                                  *)
(***************************************************************************)
Retryable5xx(status) == status >= 500
Success2xx(status) == status >= 200 /\ status < 300
Failed(err, status) == [kind |-> "FailedToLoadToken", err |-> err, status |-> status]
ErrorResponse(status) == [kind |-> "ErrorResponse", err |-> "", status |-> status]
\* the cache holds what it held when the current call started
CacheAsAtStart ==
    IF old = 0 THEN cache = None ELSE cache # None /\ cache[1].value = old

C2_TokenReuse ==
    (entered /\ get_attempt = 1 /\ cache # None /\ now < cache[1].expires_at - 120) =>
        /\ pc = "get_wait"
        /\ puts = 0 /\ fetched = 0 /\ gets = 1
        /\ wire # None /\ ~wire[1].fresh
        /\ wire[1].value = cache[1].value
        /\ wire[1].value = old
        /\ cache[1].value = issued

\* the second get of test::client_caches_token, at a later instant
C2_Witness ==
    /\ entered /\ get_attempt = 1 /\ now = 400
    /\ cache # None /\ cache[1].expires_at = 600
    /\ pc = "get_wait" /\ puts = 0 /\ wire[1].value = old /\ issued = 1

\* C3: at the start of a get the cached token is used without a token fetch
\* iff a token is cached and now < expires_at - 120; otherwise (no token, or
\* now >= expires_at - 120, the boundary included) the token PUT goes out
\* first and no GET yet.  With a token of TTL 600 fetched at t = 0: no fetch
\* at t = 400, a fetch at t = 480 and at t = 550.
C3_EarlyRefreshRule ==
    (entered /\ get_attempt = 1) =>
        /\ IF cache # None /\ now < cache[1].expires_at - 120
           THEN pc = "get_wait" /\ puts = 0 /\ gets = 1 /\ ~wire[1].fresh
           ELSE pc = "token_wait" /\ puts = 1 /\ put_attempt = 1 /\ gets = 0 /\ wire = None
        /\ (cache = None /\ now = 0) => puts = 1
        /\ (cache # None /\ cache[1].expires_at = 600 /\ now = 400) => puts = 0
        /\ (cache # None /\ cache[1].expires_at = 600 /\ now = 480) => puts = 1
        /\ (cache # None /\ cache[1].expires_at = 600 /\ now = 550) => puts = 1

\* the get at t = 550 of test::token_refresh_buffer: the token PUT is in flight
C3_Witness ==
    /\ entered /\ get_attempt = 1 /\ now = 550
    /\ cache # None /\ cache[1].expires_at = 600 /\ issued = 1
    /\ pc = "token_wait" /\ puts = 1 /\ gets = 0

C5_ForbiddenIsFatal ==
    (last_put # None /\ last_put[1].status = 403) =>
        /\ pc = "idle"
        /\ result = Failed("Forbidden", 403)
        /\ gets = get_attempt - 1
        /\ (put_attempt = 1 /\ get_attempt = 1) =>
             puts = 1 /\ gets = 0 /\ fetched = 0 /\ CacheAsAtStart

\* test::no_403_retry with the default four attempts
C5_Witness ==
    /\ last_put # None /\ last_put[1].status = 403
    /\ max_attempts = DEFAULT_ATTEMPTS
    /\ pc = "idle" /\ puts = 1 /\ gets = 0 /\ cache = None
    /\ result.err = "Forbidden"

\* C6: a GET answered with a status that is not 2xx, not 401 and below 500
\* is not retried: the get ends with ErrorResponse carrying that status, and
\* when it answers the first GET of the call that is the only GET.
C6_ClientErrorNotRetried ==
    (/\ prev # None
     /\ prev[1].status >= 100 /\ ~Success2xx(prev[1].status)
     /\ prev[1].status # 401 /\ prev[1].status < 500) =>
        /\ pc = "idle"
        /\ result = ErrorResponse(prev[1].status)
        /\ gets = get_attempt
        /\ get_attempt = 1 => gets = 1

\* a 404 to the only GET of a call, with four attempts allowed
C6_Witness ==
    /\ prev # None /\ prev[1].status = 404
    /\ max_attempts = DEFAULT_ATTEMPTS
    /\ pc = "idle" /\ gets = 1 /\ result = ErrorResponse(404)

C9_401ForcesRefresh ==
    (pc = "get_wait" /\ get_attempt >= 2 /\ prev # None /\ prev[1].status = 401) =>
        wire[1].fresh /\ wire[1].value # prev[1].value

\* C10: a successful token response whose body is no header value ends the
\* get with FailedToLoadToken(InvalidToken): the PUT is not retried, no GET
\* is sent in that attempt, and the cache is not written.
C10_InvalidTokenRejected ==
    (last_put # None /\ Success2xx(last_put[1].status) /\ ~last_put[1].body_ok) =>
        /\ pc = "idle"
        /\ result = Failed("InvalidToken", last_put[1].status)
        /\ gets = get_attempt - 1
        /\ fetched = 0 => CacheAsAtStart
        /\ cache # None => cache[1].value = issued
        /\ (put_attempt = 1 /\ get_attempt = 1) => puts = 1 /\ gets = 0 /\ fetched = 0

\* test::invalid_token: one PUT, a 200 with a valid TTL and a bad body
C10_Witness ==
    /\ last_put # None /\ last_put[1].status = 200
    /\ ~last_put[1].body_ok /\ last_put[1].ttl = "int"
    /\ max_attempts = DEFAULT_ATTEMPTS
    /\ pc = "idle" /\ puts = 1 /\ gets = 0 /\ cache = None

\* C11: a 2xx answer to the GET whose body is not valid UTF-8 is classified
\* UnretryableFailure and ends the get with Unexpected("IMDS returned invalid
\* UTF-8"), for every max_attempts: no GET follows it (when it answers the
\* first GET of the call, exactly one GET was made), no token PUT follows it,
\* and the token that GET carried is still the cached one.
C11_NonUtf8Rejected ==
    (prev # None /\ Success2xx(prev[1].status) /\ ~prev[1].text) =>
        /\ classify_retry([ok |-> FALSE, raw |-> TRUE, status |-> prev[1].status])
              = "UnretryableFailure"
        /\ pc = "idle"
        /\ result = [kind |-> "Unexpected", err |-> "IMDS returned invalid UTF-8",
                     status |-> 0]
        /\ gets = get_attempt
        /\ get_attempt = 1 => gets = 1
        /\ cache # None /\ cache[1].value = prev[1].value
        /\ wire # None /\ wire[1].value = prev[1].value

\* test::non_utf8_response: one PUT, one GET answered 200 with a bad body
C11_Witness ==
    /\ prev # None /\ prev[1].status = 200 /\ ~prev[1].text
    /\ max_attempts = DEFAULT_ATTEMPTS
    /\ pc = "idle" /\ puts = 1 /\ gets = 1 /\ get_attempt = 1
    /\ result.kind = "Unexpected" /\ cache # None /\ cache[1].value = 1

C13_TransportFailureRetried ==
    /\ (pc = "idle" /\ prev # None /\ prev[1].status = 0 /\ result.kind = "IoError") =>
         get_attempt = max_attempts
    /\ (pc = "idle" /\ last_put # None /\ last_put[1].status = 0
          /\ result.kind = "FailedToLoadToken") =>
         put_attempt = max_attempts

\* what Builder::build read
BuiltEnv == built_from[1].env
BuiltProfile == built_from[1].profile
IPv4Uri == "http://169.254.169.254"
IPv6Uri == "http://[fd00:ec2::254]"
ModeUri(m) == IF m = "IpV6" THEN IPv6Uri ELSE IPv4Uri
\* the profile loads, and every endpoint and mode that is set is well formed
ValidValues(e, p) ==
    /\ p.loads
    /\ e.endpoint # None => e.endpoint[1] \in WellFormedUris
    /\ p.endpoint # None => p.endpoint[1] \in WellFormedUris
    /\ e.mode # None => from_str(e.mode[1]).ok
    /\ p.mode # None => from_str(p.mode[1]).ok
\* the first source present, in the order of the documentation
FirstPresent(b, e, p) ==
    IF b.endpoint # None THEN b.endpoint[1]
    ELSE IF e.endpoint # None THEN e.endpoint[1]
    ELSE IF p.endpoint # None THEN p.endpoint[1]
    ELSE IF b.mode_override # None THEN ModeUri(b.mode_override[1])
    ELSE IF e.mode # None THEN ModeUri(from_str(e.mode[1]).val)
    ELSE IF p.mode # None THEN ModeUri(from_str(p.mode[1]).val)
    ELSE IPv4Uri

\* C14: when build has run on an environment and a profile whose values are
\* all valid, its outcome is a Client whose endpoint is that of the first
\* source present in the order explicit endpoint, environment endpoint,
\* profile endpoint, mode override, environment mode, profile mode, IPv4;
\* and the first request of that Client is sent to that endpoint.
C14_EndpointPrecedence ==
    (builds = 1 /\ ValidValues(BuiltEnv, BuiltProfile)) =>
        /\ cell = Some(Result_Ok([endpoint |->
                                    FirstPresent(builder, BuiltEnv, BuiltProfile)]))
        /\ returned # <<>> /\ returned[1] = cell[1]
        /\ sent_to # None => sent_to[1] = FirstPresent(builder, BuiltEnv, BuiltProfile)

\* only the profile names a mode (ipv6): the request goes to the IPv6 address
C14_Witness ==
    /\ builds = 1
    /\ builder = [endpoint |-> None, mode_override |-> None]
    /\ BuiltEnv = [endpoint |-> None, mode |-> None]
    /\ BuiltProfile = [loads |-> TRUE, endpoint |-> None, mode |-> Some(<<"i", "p", "v", "6">>)]
    /\ sent_to = Some(IPv6Uri)

\* build ran with no explicit endpoint, and the endpoint it found first (the
\* environment variable, or the profile key when the variable is absent) is
\* not a URI
MalformedEndpoint ==
    /\ builds = 1 /\ builder.endpoint = None
    /\ \/ BuiltEnv.endpoint # None /\ BuiltEnv.endpoint[1] \notin WellFormedUris
       \/ /\ BuiltEnv.endpoint = None
          /\ BuiltProfile.endpoint # None /\ BuiltProfile.endpoint[1] \notin WellFormedUris
\* the outcome of build is this BuildError, and no request is ever sent
BuildFailed(error) ==
    /\ cell # None /\ ~cell[1].ok /\ cell[1].val.error = error
    /\ \A i \in 1..Len(returned) : ~returned[i].ok
    /\ sent_to = None

\* C15 as stated: with no explicit endpoint, a malformed endpoint URI in the
\* environment variable (or in the profile key when the variable is absent)
\* makes build fail with InvalidEndpointUri, for every profile file.
C15_MalformedUriIsInvalidEndpointUri ==
    MalformedEndpoint => BuildFailed("InvalidEndpointUri")

\* C15 amended: in that case build fails and there is no Client and no
\* request, whatever the lower-precedence sources hold: with
\* InvalidEndpointUri carrying the malformed string when the profile file
\* loads, and with InvalidProfile when it does not.
C15_MalformedUriIsFatal ==
    MalformedEndpoint =>
        IF BuiltProfile.loads
        THEN /\ BuildFailed("InvalidEndpointUri")
             /\ cell[1].val.value = IF BuiltEnv.endpoint # None
                                    THEN BuiltEnv.endpoint[1]
                                    ELSE BuiltProfile.endpoint[1]
        ELSE BuildFailed("InvalidProfile")

\* a malformed environment endpoint, with a valid profile endpoint, a mode
\* override and modes to fall back on: client() has returned the error
C15_Witness ==
    /\ MalformedEndpoint
    /\ BuiltEnv.endpoint = Some("env: not a uri") /\ BuiltEnv.mode # None
    /\ BuiltProfile.loads /\ BuiltProfile.endpoint = Some("http://profile.example")
    /\ builder.mode_override # None
    /\ returned # <<>> /\ returned[1].val.error = "InvalidEndpointUri"

\* build ran and its resolution reached the mode sources: no explicit
\* endpoint, a profile that loaded, no endpoint in the environment or the
\* profile, no mode override
ReachedModeSources ==
    /\ builds = 1 /\ builder.endpoint = None /\ builder.mode_override = None
    /\ BuiltProfile.loads
    /\ BuiltEnv.endpoint = None /\ BuiltProfile.endpoint = None
\* the mode string resolution reads: the environment's, else the profile's
ModeRead ==
    IF BuiltEnv.mode # None THEN BuiltEnv.mode ELSE BuiltProfile.mode
\* a string that is neither ipv4 nor ipv6 in any letter case
UnknownMode(str) ==
    \/ Len(str) # 4
    \/ str[1] \notin {"i", "I"} \/ str[2] \notin {"p", "P"} \/ str[3] \notin {"v", "V"}
    \/ str[4] \notin {"4", "6"}

\* C16: when resolution reaches the mode sources and the mode string it reads
\* (the environment variable, or the profile key when the variable is absent)
\* is unknown, build fails with InvalidEndpointMode carrying that string: no
\* Client, no request, whatever the profile mode is when the environment's is
\* the unknown one.
C16_UnknownModeIsFatal ==
    (ReachedModeSources /\ ModeRead # None /\ UnknownMode(ModeRead[1])) =>
        /\ BuildFailed("InvalidEndpointMode")
        /\ cell[1].val.value = ModeRead[1]

\* the environment mode is unknown while the profile names a valid mode
C16_Witness ==
    /\ ReachedModeSources
    /\ BuiltEnv.mode = Some(<<"v", "6">>)
    /\ BuiltProfile.mode = Some(<<"i", "p", "v", "6">>)
    /\ returned # <<>> /\ returned[1].val.error = "InvalidEndpointMode"

\* what build returns when only the environment endpoint decides
FromEnvEndpoint ==
    IF BuiltEnv.endpoint[1] \in WellFormedUris
    THEN Result_Ok([endpoint |-> BuiltEnv.endpoint[1]])
    ELSE Result_Err([error |-> "InvalidEndpointUri", value |-> BuiltEnv.endpoint[1]])
\* what build returns when only the environment mode decides
FromEnvMode ==
    IF UnknownMode(BuiltEnv.mode[1])
    THEN Result_Err([error |-> "InvalidEndpointMode", value |-> BuiltEnv.mode[1]])
    ELSE Result_Ok([endpoint |-> IF BuiltEnv.mode[1][4] = "6" THEN IPv6Uri ELSE IPv4Uri])

\* C17 as stated: when the endpoint environment variable is set (and no
\* explicit endpoint), the outcome of build is decided by that variable alone,
\* for every profile file, one that does not load included; and build fails
\* with InvalidProfile only when the profile is needed (no explicit endpoint
\* and no endpoint environment variable).
C17_ProfileReadOnlyWhenNeeded ==
    builds = 1 =>
        /\ (builder.endpoint = None /\ BuiltEnv.endpoint # None) => cell[1] = FromEnvEndpoint
        /\ (~cell[1].ok /\ cell[1].val.error = "InvalidProfile") =>
             builder.endpoint = None /\ BuiltEnv.endpoint = None

\* C17 amended: the profile's fields are read only when the corresponding
\* environment variable is absent: with a profile file that loads, a set
\* endpoint variable alone decides the outcome, and (when resolution
\* reaches the modes) a set mode variable alone decides it.  The file itself
\* is loaded whenever no explicit endpoint is given: if it does not load,
\* build fails with InvalidProfile, with the endpoint variable set or not;
\* and InvalidProfile is returned in no other case.
C17_ProfileFieldsOnlyWhenEnvAbsent ==
    builds = 1 =>
        /\ (builder.endpoint = None /\ BuiltEnv.endpoint # None /\ BuiltProfile.loads) =>
             cell[1] = FromEnvEndpoint
        /\ (ReachedModeSources /\ BuiltEnv.mode # None) => cell[1] = FromEnvMode
        /\ (builder.endpoint = None /\ ~BuiltProfile.loads) => BuildFailed("InvalidProfile")
        /\ (~cell[1].ok /\ cell[1].val.error = "InvalidProfile") =>
             builder.endpoint = None /\ ~BuiltProfile.loads

\* the endpoint variable holds a valid URI, the profile file does not load:
\* client() has returned InvalidProfile
C17_Witness ==
    /\ builds = 1 /\ builder.endpoint = None
    /\ BuiltEnv.endpoint = Some("http://env.example")
    /\ ~BuiltProfile.loads
    /\ returned # <<>> /\ ~returned[1].ok /\ returned[1].val.error = "InvalidProfile"

\* C18: when build runs with an explicit endpoint, its outcome is a Client
\* with exactly that endpoint, and the first request goes there: for every
\* environment, every profile file (one that does not load included) and
\* every mode override.
C18_ExplicitEndpointVerbatim ==
    (builds = 1 /\ builder.endpoint # None) =>
        /\ cell = Some(Result_Ok([endpoint |-> builder.endpoint[1]]))
        /\ \A i \in 1..Len(returned) : returned[i] = Result_Ok([endpoint |-> ExplicitUri])
        /\ sent_to # None => sent_to[1] = builder.endpoint[1]

\* an explicit endpoint with a mode override, a malformed environment
\* endpoint, an unknown environment mode and a profile that does not load
C18_Witness ==
    /\ builds = 1
    /\ builder = [endpoint |-> Some(ExplicitUri), mode_override |-> Some("IpV6")]
    /\ BuiltEnv = [endpoint |-> Some("env: not a uri"), mode |-> Some(<<"v", "6">>)]
    /\ ~BuiltProfile.loads
    /\ sent_to = Some(ExplicitUri)

\* the string is "ipv" followed by the digit d, in any letter case
IsIpv(str, d) ==
    /\ Len(str) = 4
    /\ str[1] \in {"i", "I"} /\ str[2] \in {"p", "P"} /\ str[3] \in {"v", "V"}
    /\ str[4] = d

\* C19: from_str gives IpV4 iff the string is "ipv4" ignoring ASCII case,
\* IpV6 iff it is "ipv6" ignoring ASCII case, and rejects every other string
\* with InvalidEndpointMode carrying the string unchanged; endpoint() maps
\* IpV4 to http://169.254.169.254 and IpV6 to http://[fd00:ec2::254].
C19_ModeParsing ==
    mode_parsed # None =>
        LET r == mode_parsed[1]
        IN  /\ (r.ok /\ r.val = "IpV4") <=> IsIpv(mode_str, "4")
            /\ (r.ok /\ r.val = "IpV6") <=> IsIpv(mode_str, "6")
            /\ r.ok => r.val \in {"IpV4", "IpV6"}
            /\ ~r.ok => r.val = [error |-> "InvalidEndpointMode", value |-> mode_str]
            /\ mode_uri # None =>
                 /\ r.ok
                 /\ r.val = "IpV4" => mode_uri[1] = "http://169.254.169.254"
                 /\ r.val = "IpV6" => mode_uri[1] = "http://[fd00:ec2::254]"

\* "IPv6" has been parsed and mapped to the IPv6 address
C19_Witness ==
    /\ mode_str = <<"I", "P", "v", "6">>
    /\ mode_parsed = Some(Result_Ok("IpV6"))
    /\ mode_uri = Some("http://[fd00:ec2::254]")

\* C20: build runs at most once per LazyClient; once client() has returned,
\* the cell holds that outcome and every later call returns the same one (the
\* same Client or the same BuildError), whatever has happened to the
\* environment and the profile file since; the outcome is that of build on
\* the environment and profile of the first call.
C20_LazyClientBuildsOnce ==
    /\ builds <= 1
    /\ returned # <<>> =>
         /\ cell # None
         /\ \A i \in 1..Len(returned) : returned[i] = returned[1] /\ returned[i] = cell[1]
    /\ builds = 1 =>
         /\ returned # <<>>
         /\ cell[1] = Builder_build(builder, BuiltEnv, BuiltProfile)
    /\ (builds = 0 /\ cell # None) => cell[1].ok

\* the first call failed on a profile file that did not load; the file has
\* been put right since, and the second call returned the same error
C20_Witness ==
    /\ builds = 1 /\ Len(returned) = 2 /\ changes = 1
    /\ ~BuiltProfile.loads /\ profile.loads
    /\ ~returned[2].ok /\ returned[2].val.error = "InvalidProfile"
    /\ Builder_build(builder, env, profile).ok

\* C21: with any number of tasks calling client() concurrently on a fresh
\* LazyClient, in any interleaving (tasks dropped while waiting or building
\* included): build completes at most once, and exactly once as soon as any
\* caller has returned; the warning is logged at most once, and only for a
\* failed build; and every caller that has returned, the one that ran the
\* build included, got the outcome held in the cell.
C21_ConcurrentCallersOneBuild ==
    /\ builds <= 1 /\ warned <= 1
    /\ initialized(cell) <=> builds = 1
    /\ warned = 1 <=> (builds = 1 /\ ~cell[1].ok)
    /\ \A c \in DOMAIN lazy_pc :
         /\ lazy_pc[c] = "done" <=> got[c] # None
         /\ got[c] # None => builds = 1 /\ got[c] = cell
         /\ \A d \in DOMAIN lazy_pc : (got[c] # None /\ got[d] # None) => got[c] = got[d]
    /\ Cardinality({c \in DOMAIN lazy_pc : lazy_pc[c] = "building"}) <= 1

\* two callers have both returned the same BuildError: one built, the other
\* waited; one warning was logged
C21_Witness ==
    /\ lazy_pc = [c \in Callers |-> "done"]
    /\ builds = 1 /\ started = 1 /\ warned = 1
    /\ \A c \in Callers : got[c] # None /\ ~got[c][1].ok

\* no task has called client() on the LazyClient yet
NoClientCall == \A c \in DOMAIN lazy_pc : lazy_pc[c] = "idle"

\* C22: from build_lazy() until the first client() call the cell is empty
\* and nothing has been resolved, read, logged or sent, for every builder,
\* environment and profile, those whose build would fail included; a
\* BuildError is in the cell only once a caller of client() has run build.
C22_BuildLazyDoesNothing ==
    /\ NoClientCall =>
         /\ cell = None /\ builds = 0 /\ started = 0 /\ warned = 0
         /\ built_from = None /\ sent_to = None
         /\ \A c \in DOMAIN got : got[c] = None
    /\ (cell # None /\ ~cell[1].ok) =>
         /\ ~NoClientCall /\ builds = 1 /\ warned = 1
         /\ \E c \in DOMAIN lazy_pc : lazy_pc[c] = "done" /\ got[c] = cell

\* a configuration whose build fails: the first caller got the BuildError,
\* the second has not called yet
C22_Witness ==
    /\ ~Builder_build(builder, env, profile).ok
    /\ lazy_pc[1] = "done" /\ got[1] # None /\ ~got[1][1].ok
    /\ lazy_pc[2] = "idle" /\ got[2] = None
    /\ started = 1 /\ builds = 1


\* C23: what get returns is decided by how the call ended, one variant per
\* way: no response or an unreadable one gives IoError, a response outside
\* 200..299 gives ErrorResponse with that response, a 2xx response that is not
\* UTF-8 gives Unexpected("invalid UTF-8"), a 2xx UTF-8 response gives Ok, a
\* failure of the token loader gives FailedToLoadToken with that failure, and
\* any other failure before sending gives Unexpected.
C23_OutcomeMappingExact ==
    (get_result # <<>> /\ path_parses) =>
        LET o == call_outcome
            r == get_result[1]
            in2xx == o.status >= 200 /\ o.status <= 299
        IN  /\ r.kind \in {"Ok", "IoError", "ErrorResponse", "Unexpected", "FailedToLoadToken"}
            /\ r.kind = "IoError" <=> o.stage \in {"timeout", "dispatch", "unreadable"}
            /\ r.kind = "ErrorResponse" <=> (o.stage = "response" /\ ~in2xx)
            /\ r.kind = "ErrorResponse" => r.status = o.status
            /\ r.kind = "Ok" <=> (o.stage = "response" /\ in2xx /\ o.utf8)
            /\ r.kind = "FailedToLoadToken" <=>
                   (o.stage = "construction" /\ o.err \in TokenFailures)
            /\ r.kind = "FailedToLoadToken" => r.err = o.err
            /\ r.kind = "Unexpected" <=>
                   \/ o.stage = "response" /\ in2xx /\ ~o.utf8
                   \/ o.stage = "construction" /\ o.err = "Other"
            /\ (r.kind = "Unexpected" /\ o.stage = "response") =>
                   r.err = "IMDS returned invalid UTF-8"

C23_Witness ==
    /\ get_result # <<>>
    /\ path_parses
    /\ call_outcome.stage = "timeout"
    /\ get_result[1].kind = "IoError"


\* C24: a get whose path does not parse returns InvalidPath at once: no
\* attempt of either operation, no token PUT, no metadata GET, no answer
\* received, and the cache holds the token it held before the call.
C24_InvalidPathBeforeAnything ==
    result.kind = "InvalidPath" =>
        /\ pc = "idle"
        /\ get_attempt = 0 /\ put_attempt = 0
        /\ puts = 0 /\ gets = 0 /\ fetched = 0
        /\ wire = None /\ prev = None /\ last_put = None
        /\ CacheAsAtStart

\* an InvalidPath get made while a token was cached
C24_Witness ==
    /\ result.kind = "InvalidPath"
    /\ old # 0
    /\ cache # None
    /\ cache[1].value = old


\* C25: neither operation is attempted more than max_attempts times; an
\* operation is attempted again only after a retryable answer (401 or a
\* server error), so it stops at the first success and at the first answer
\* that is not retryable; a get that ends on a retryable answer has made
\* exactly max_attempts attempts of the operation that received it and
\* returns that last answer.
C25_RetryBudget ==
    LET retryable(status) == status = 401 \/ (status >= 500 /\ status <= 599)
    IN  /\ get_attempt <= max_attempts
        /\ put_attempt <= max_attempts
        /\ (pc # "idle" /\ prev # None) => retryable(prev[1].status)
        /\ (pc = "token_wait" /\ put_attempt >= 2) => retryable(last_put[1].status)
        /\ (pc = "idle" /\ result.kind = "ErrorResponse" /\ retryable(result.status)) =>
                /\ get_attempt = max_attempts
                /\ gets = get_attempt
                /\ prev[1].status = result.status
        /\ (pc = "idle" /\ result.kind = "FailedToLoadToken"
               /\ retryable(last_put[1].status)) =>
                /\ put_attempt = max_attempts
                /\ result.status = last_put[1].status

\* the default budget used up by the get operation
C25_Witness ==
    /\ pc = "idle"
    /\ max_attempts = DEFAULT_ATTEMPTS
    /\ result.kind = "ErrorResponse"
    /\ result.status = 500
    /\ get_attempt = DEFAULT_ATTEMPTS
    /\ gets = DEFAULT_ATTEMPTS


\* C26: every handle sees the token of the last successful fetch, whichever
\* handle made it; a get that read a token with more than the refresh buffer
\* left attached that token without fetching, and a get fetches only when it
\* read no such token.
C26_ClonesShareOneCache ==
    /\ \A h \in DOMAIN handles : inners[handles[h]] = latest
    /\ \A h \in DOMAIN calls :
         LET call == calls[h]
             could_use == call.had # None
                          /\ call.at < call.had[1].expires_at - TOKEN_REFRESH_BUFFER
         IN  call.pc # "new" =>
                /\ could_use => (call.pc = "done" /\ ~call.fetched
                                 /\ call.value = call.had[1].value)
                /\ (call.pc = "fetching" \/ call.fetched) => ~could_use

\* a get through the second handle used, without fetching, the token that a
\* get through the first handle fetched
C26_Witness ==
    /\ Len(handles) = 2
    /\ fetched_by = 1
    /\ calls[1].fetched
    /\ calls[2].pc = "done"
    /\ ~calls[2].fetched
    /\ latest # None
    /\ calls[2].value = latest[1].value
    /\ calls[2].value = calls[1].value


\* C27: whatever the interleaving of gets that fetch, every token read from
\* the cache and every token in it is the {value, expires_at} pair of one
\* token response; once no fetch is in flight the cache holds the pair of
\* the response that arrived last.
C27_CacheUpdatesAtomic ==
    /\ \A i \in DOMAIN inners : inners[i] = None \/ inners[i][1] \in responses
    /\ \A h \in DOMAIN calls : calls[h].had = None \/ calls[h].had[1] \in responses
    /\ \A t, u \in responses : t.value = u.value => t = u
    /\ (issued > 0 /\ \A h \in DOMAIN calls : calls[h].pc # "fetching") =>
          \A h \in DOMAIN handles :
             /\ inners[handles[h]] # None
             /\ inners[handles[h]][1] \in responses
             /\ inners[handles[h]][1].value = issued

\* two gets both read an empty cache, both fetched, and both fetches are over
C27_Witness ==
    /\ Len(handles) = 2
    /\ calls[1].had = None /\ calls[2].had = None
    /\ calls[1].fetched /\ calls[2].fetched
    /\ calls[1].pc = "done" /\ calls[2].pc = "done"
    /\ calls[1].value # calls[2].value
    /\ issued = 2


\* C28: the cache changes only in the step in which a token PUT is answered
\* with a token (200, a body that is a header value, an integer TTL), and
\* then to the token of that answer; no other step of a get, and no passing
\* of time, writes it.
C28_CacheWrittenOnlyByFetch ==
    [][cache' # cache =>
          /\ pc = "token_wait"
          /\ last_put' # None
          /\ last_put'[1].status = 200
          /\ last_put'[1].body_ok
          /\ last_put'[1].ttl = "int"
          /\ issued' = issued + 1
          /\ fetched' = fetched + 1
          /\ cache' = Some([value |-> issued',
                            expires_at |-> now + last_put'[1].secs])]_vars

\* a token fetch failed on its TTL header while an older token was cached,
\* and the older token is still there
C28_Witness ==
    /\ pc = "idle"
    /\ result.kind = "FailedToLoadToken"
    /\ last_put # None
    /\ last_put[1].status = 200
    /\ last_put[1].ttl = "invalid"
    /\ old # 0
    /\ cache # None
    /\ cache[1].value = old


\* the step in which a token PUT is answered 200 with a body that is a header
\* value, and the TTL header of that answer
TokenAnswered ==
    /\ pc = "token_wait"
    /\ now' = now
    /\ last_put' # None
    /\ last_put'[1].status = 200
    /\ last_put'[1].body_ok
\* the fetch fails with err: get returns it, nothing is cached, no GET is sent
TtlRejected(err) ==
    /\ result' = Failed(err, 200)
    /\ pc' = "idle"
    /\ cache' = cache
    /\ issued' = issued
    /\ fetched' = fetched
    /\ gets' = gets
\* the token is cached with the granted TTL and the GET is sent with it
TtlAccepted ==
    /\ cache' = Some([value |-> issued', expires_at |-> now + last_put'[1].secs])
    /\ issued' = issued + 1
    /\ fetched' = fetched + 1
    /\ gets' = gets + 1
    /\ pc' = "get_wait"
    /\ wire'[1].value = issued'

PutFailed(answer) ==
    \/ answer.status # 200
    \/ ~answer.body_ok
    \/ answer.ttl # "int"

\* C31: when the last token PUT of a get yielded no token, either that PUT
\* is being sent again by the token fetch's own retries, or the get is over:
\* it returned FailedToLoadToken (never IoError), the attempt of the get
\* operation that needed the token sent no GET, and the get operation was
\* not attempted again, so a first attempt that fails this way made one
\* token fetch and nothing else.
C31_TokenFailureEndsGet ==
    (last_put # None /\ PutFailed(last_put[1])) =>
        IF pc = "idle"
        THEN /\ result.kind = "FailedToLoadToken"
             /\ gets = get_attempt - 1
             /\ get_attempt = 1 => (gets = 0 /\ fetched = 0 /\ puts = put_attempt)
             /\ last_put[1].status = 0 => result = Failed("DispatchFailure", 0)
        ELSE /\ pc = "token_wait"
             /\ put_attempt >= 2
             /\ gets = get_attempt - 1

\* test::one_second_connect_timeout: the first PUT fails to connect, and the
\* get is over after it although four attempts were allowed
C31_Witness ==
    /\ pc = "idle"
    /\ max_attempts = DEFAULT_ATTEMPTS
    /\ last_put # None /\ last_put[1].status = 0
    /\ result = Failed("DispatchFailure", 0)
    /\ get_attempt = 1 /\ puts = 1 /\ gets = 0 /\ fetched = 0

\* C32: every request that reached the connector, token PUT or metadata
\* GET, first attempt or retry, carries a user-agent header.
C32_UserAgentOnEveryRequest ==
    \A i \in DOMAIN requests : header(requests[i], USER_AGENT) # {}

\* test::retry_500: a token PUT, the GET, and the GET again
C32_Witness ==
    /\ Len(requests) = 3
    /\ requests[1].method = "PUT"
    /\ requests[2].method = "GET"
    /\ requests[3] = requests[2]
    /\ header(requests[3], USER_AGENT) # {}

\* C33: a built Client has the builder's options, or 4 attempts, 1-second
\* connect and read timeouts and a 21600-second token TTL where they were
\* left unset; every PUT on the wire goes to endpoint/latest/api/token with
\* that token TTL as its TTL header; every GET on the wire goes to the
\* endpoint followed by a path and carries one token, a value the server has
\* issued, and the GET in flight carries the cached token and the get's path.
C33_WireShapeAndDefaults ==
    wire_client # None =>
        LET settings == wire_client[1]
            requested == IF wire_builder.token_ttl = None
                         THEN 21600 ELSE wire_builder.token_ttl[1]
        IN  /\ settings.endpoint = wire_builder.endpoint
            /\ wire_builder.max_attempts = None => settings.max_attempts = 4
            /\ wire_builder.connect_timeout = None => settings.connect_timeout = 1
            /\ wire_builder.read_timeout = None => settings.read_timeout = 1
            /\ wire_builder.max_attempts # None =>
                  settings.max_attempts = wire_builder.max_attempts[1]
            /\ \A i \in DOMAIN requests :
                 LET r == requests[i]
                 IN  /\ r.method \in {"PUT", "GET"}
                     /\ r.method = "PUT" =>
                          /\ r.uri = wire_builder.endpoint \o <<"/latest/api/token">>
                          /\ header(r, "x-aws-ec2-metadata-token-ttl-seconds") = {requested}
                          /\ header(r, "x-aws-ec2-metadata-token") = {}
                     /\ r.method = "GET" =>
                          /\ \E path \in WirePaths : r.uri = wire_builder.endpoint \o path
                          /\ \E v \in 1..issued : header(r, "x-aws-ec2-metadata-token") = {v}
                          /\ header(r, "x-aws-ec2-metadata-token-ttl-seconds") = {}
            /\ pc = "get_wait" =>
                 LET r == requests[Len(requests)]
                 IN  /\ r.method = "GET"
                     /\ r.uri = wire_builder.endpoint \o wire_path
                     /\ header(r, "x-aws-ec2-metadata-token") = {cache[1].value}

\* a builder with a token TTL of its own and the other options unset: the
\* PUT asked for that TTL and the GET followed with the token
C33_Witness ==
    /\ wire_builder.token_ttl = <<900>>
    /\ wire_builder.max_attempts = None
    /\ wire_client # None
    /\ wire_client[1].max_attempts = 4
    /\ Len(requests) = 2
    /\ requests[1].method = "PUT"
    /\ header(requests[1], "x-aws-ec2-metadata-token-ttl-seconds") = {900}
    /\ requests[2].method = "GET"
    /\ header(requests[2], "x-aws-ec2-metadata-token") = {1}

\* C34: the cache is written only with the token of the response just
\* received, and its expiry is the instant of the fetch plus the TTL header
\* of that response, whatever TTL the PUT asked for.
C34_ExpiryFromGrantedTtl ==
    [][cache' # cache =>
          /\ Len(granted') = issued'
          /\ cache' = Some([value |-> issued',
                            expires_at |-> now + granted'[issued']])]_vars

\* test::token_can_expire: the PUT asked for 21600 seconds, the response
\* granted 600, and the token fetched at instant 0 expires at 600
C34_Witness ==
    /\ now = 0
    /\ Len(requests) >= 2
    /\ header(requests[1], "x-aws-ec2-metadata-token-ttl-seconds") = {21600}
    /\ granted = <<600>>
    /\ cache # None
    /\ cache[1].expires_at = 600

\* C35: at the start of every attempt of the get operation after the first,
\* the cached token is looked at again: when it has more than the refresh
\* buffer left, the GET goes out at once with it, the token the previous
\* attempt carried, and no PUT is sent; otherwise a token PUT goes out and
\* the GET waits for it.
C35_UsabilityCheckedEachAttempt ==
    (entered /\ get_attempt >= 2) =>
        /\ prev # None
        /\ cache # None
        /\ cache[1].value = prev[1].value
        /\ IF now < cache[1].expires_at - 120
           THEN /\ pc = "get_wait"
                /\ put_attempt = 0
                /\ gets = get_attempt
                /\ ~wire[1].fresh
                /\ wire[1].value = prev[1].value
           ELSE /\ pc = "token_wait"
                /\ put_attempt = 1
                /\ gets = get_attempt - 1
                /\ wire[1].value = prev[1].value

\* test::retry_metadata_401: the token granted with a TTL of 0 was sent, the
\* GET answered 401, and the second attempt starts with a second token PUT
C35_Witness ==
    /\ entered /\ get_attempt = 2
    /\ prev # None /\ prev[1].status = 401
    /\ pc = "token_wait"
    /\ puts = 2 /\ gets = 1
    /\ now >= cache[1].expires_at - 120

\* C36: the step in which a metadata GET is answered, whatever the answer,
\* leaves the cache as it was when the GET was sent and fetches nothing;
\* when the get operation is attempted again at once with a GET, that GET
\* carries the same token, the one still in the cache.
C36_GetOutcomeLeavesCache ==
    [][(pc = "get_wait" /\ now' = now) =>
          /\ prev' # None
          /\ cache' = cache
          /\ issued' = issued
          /\ fetched' = fetched
          /\ cache # None
          /\ prev'[1].value = wire[1].value
          /\ pc' = "get_wait" =>
                /\ wire'[1].value = wire[1].value
                /\ wire'[1].value = cache'[1].value
                /\ ~wire'[1].fresh]_vars

\* a get ended on a 401 after using up its attempts, and the token that was
\* sent is still the cached one
C36_Witness ==
    /\ pc = "idle"
    /\ result = ErrorResponse(401)
    /\ get_attempt = max_attempts
    /\ cache # None
    /\ cache[1].value = prev[1].value
    /\ now < cache[1].expires_at - 120

C38_LowerSourcesNotValidated ==
    (builds = 1 /\ cell # None) =>
        /\ builder.endpoint # None =>
             cell[1] = Result_Ok([endpoint |-> builder.endpoint[1]])
        /\ (builder.endpoint = None /\ BuiltProfile.loads) =>
             IF BuiltEnv.endpoint # None
             THEN cell[1] = FromEnvEndpoint
             ELSE IF BuiltProfile.endpoint # None
             THEN cell[1] =
                    IF BuiltProfile.endpoint[1] \in WellFormedUris
                    THEN Result_Ok([endpoint |-> BuiltProfile.endpoint[1]])
                    ELSE Result_Err([error |-> "InvalidEndpointUri",
                                     value |-> BuiltProfile.endpoint[1]])
             ELSE builder.mode_override # None =>
                    cell[1] = Result_Ok([endpoint |-> ModeUri(builder.mode_override[1])])

\* a mode override with unknown mode strings in both the environment and the
\* profile: the Client is built for the override's endpoint
C38_Witness ==
    /\ builds = 1
    /\ builder = [endpoint |-> None, mode_override |-> Some("IpV6")]
    /\ BuiltEnv = [endpoint |-> None, mode |-> Some(<<"v", "6">>)]
    /\ BuiltProfile = [loads |-> TRUE, endpoint |-> None, mode |-> Some(<<"i", "p", "6">>)]
    /\ cell = Some(Result_Ok([endpoint |-> "http://[fd00:ec2::254]"]))

\* C39: every metadata GET seen by the connector carries exactly one token,
\* and that token was issued by a token response answered before the GET
\* was sent (as many token PUTs precede the GET as tokens were issued up to
\* that one); while a token PUT is outstanding it is the last request sent,
\* so the GET of that attempt has not gone out; nothing is sent before the
\* first get, and the first request ever sent is a token PUT.
C39_TokenBeforeGet ==
    LET token_of(i) == header(requests[i], X_AWS_EC2_METADATA_TOKEN)
        puts_before(i) == Cardinality({j \in 1..(i - 1) : requests[j].method = "PUT"})
    IN  /\ \A i \in DOMAIN requests :
             requests[i].method = "GET" =>
                \E v \in 1..Len(granted) :
                   /\ token_of(i) = {v}
                   /\ v <= puts_before(i)
        /\ \A i \in DOMAIN requests :
             requests[i].method = "PUT" => token_of(i) = {}
        /\ pc = "token_wait" =>
             (requests # <<>> /\ requests[Len(requests)].method = "PUT")
        /\ pc = "get_wait" =>
             (requests # <<>> /\ requests[Len(requests)].method = "GET")
        /\ wire_client = None => requests = <<>>
        /\ requests # <<>> => requests[1].method = "PUT"

\* two tokens were fetched: each GET went out after the PUT that fetched its
\* token
C39_Witness ==
    /\ Len(requests) = 4
    /\ Len(granted) = 2
    /\ requests[1].method = "PUT"
    /\ requests[2].method = "GET"
    /\ header(requests[2], X_AWS_EC2_METADATA_TOKEN) = {1}
    /\ requests[3].method = "PUT"
    /\ requests[4].method = "GET"
    /\ header(requests[4], X_AWS_EC2_METADATA_TOKEN) = {2}

\* C40: with every request answered, a get that has started returns; until
\* then and afterwards it has sent at most max_attempts metadata GETs, it is
\* in at most its max_attempts-th attempt, it has sent at most max_attempts
\* token PUTs in the current attempt and at most max_attempts PUTs for each
\* attempt so far.
C40_GetTerminates ==
    /\ [](/\ gets <= max_attempts
          /\ get_attempt <= max_attempts
          /\ put_attempt <= max_attempts
          /\ puts <= get_attempt * max_attempts)
    /\ (pc # "idle") ~> (pc = "idle")

\* a get of a client with two attempts returned the error of the second 401,
\* each of its two GETs sent with a token fetched for it
C40_Witness ==
    /\ max_attempts = 2
    /\ pc = "idle"
    /\ gets = 2
    /\ puts = 2
    /\ fetched = 2
    /\ prev # None
    /\ prev[1].status = 401
    /\ result = ErrorResponse(401)

====
